---- MODULE Spec2Model ----
(***************************************************************************)
(* Global escalation engine of the environment dashboard (ai.js,           *)
(* createAI().evaluateGlobal) together with the snapshot it is fed from.   *)
(*                                                                         *)
(* Encoding.  Every read of firstSeenMs, lastSeenMs, lastAckMs and         *)
(* lastDataMs in the source is a truthiness test (!x, x ? a : b, x || y),  *)
(* so null and 0 are indistinguishable to the engine; null is written 0    *)
(* here and the clock starts at 1.  Times are in scaled units, signal      *)
(* values in tenths of their unit, row timestamps in milliseconds.         *)
(***************************************************************************)
EXTENDS Integers, Sequences, FiniteSets, TLC

VARIABLES
    DEVICES,       \* the configured devices, in the order of the payload
    EVENTS,        \* Map eventKey -> event state (only the keys created so far)
    clock,         \* Date.now()
    pc,            \* "loop" while an evaluation is in progress
    idx,           \* the position of the evaluation in its loop over devices
    dev,           \* the device snapshot the loop has just processed
    candidates,    \* the candidates array of the evaluation
    result,        \* the record returned by the last evaluation
    ackEventKey,   \* the ackEventKey argument of the evaluation ("" = none)
    emitted,       \* eventKey -> stage of the candidate the latest pass over its
                   \* device produced for it, 0 if it produced none
    offline,       \* deviceId -> [since, again]: the time of the first evaluation of
                   \* the run of evaluations that saw it offline (0 when the latest
                   \* saw it online), and whether an earlier run ended in a recovery
    acked,         \* eventKey -> [at, fired, live]: the time of the latest evaluation
                   \* that acknowledged it, its lastFiredStage just before, and
                   \* whether every pass since has seen its condition active
    devices,       \* the snapshots the evaluation in progress, or the latest one at
                   \* the current time, has been handed so far
    TWIN,          \* the event store of a second engine that is fed the same
                   \* snapshots and times and is never given an acknowledgement
    GLOBAL_STATE,  \* dashboard: deviceId -> the snapshot of the latest poll
    MODAL_VISIBLE, \* dashboard: the global modal is on screen
    MODAL_EVENT_KEY, \* dashboard: the key an OK click relays ("" = null)
    shown,         \* the event key of the modal on screen ("" when none is)
    click,         \* [done, key, ack]: whether OK has been clicked, the key of the
                   \* modal the latest click dismissed, the ackEventKey it relayed
    observed,      \* the event keys whose condition some pass has seen active
    GLOBAL_POLL_INFLIGHT, \* dashboard: the guard of pollGlobalOnce
    poll,          \* dashboard: the position of the fetch loop of the poll in
                   \* flight in DEVICES (0 when no poll is in flight)
    loops,         \* the number of fetch loops in progress
    mixed,         \* the latest engine call was made while a fetch loop was in
                   \* progress
    input,         \* the argument handed to a helper that is exercised on its own
    output,        \* what the helper returned for it
    LAST_GLOBAL_TOAST_EVENT, \* dashboard: the key of the latest toast ("" = null)
    LAST_GLOBAL_TOAST_MS,    \* dashboard: the time it was shown (0 at the start)
    toasted,       \* the latest runGlobalAI displayed a toast
    public_readings  \* Firestore: the documents added under public_readings

engineVars == <<DEVICES, EVENTS, clock, pc, idx, dev, candidates, result, ackEventKey,
                emitted, offline, acked, devices>>
dashVars == <<GLOBAL_STATE, MODAL_VISIBLE, MODAL_EVENT_KEY, shown, click>>
pollVars == <<GLOBAL_POLL_INFLIGHT, poll, loops, mixed>>
pureVars == <<input, output>>
toastVars == <<LAST_GLOBAL_TOAST_EVENT, LAST_GLOBAL_TOAST_MS, toasted>>
vars == <<engineVars, TWIN, dashVars, observed, pollVars, pureVars, toastVars,
         public_readings>>

(***************************************************************************)
(* Bounds and caller-supplied parameters (scaled time units)               *)
(***************************************************************************)
MaxTime == 4
WarnMs == 1
AlertMs == 2
RepeatWindowMs == 1
PersistWindowMs == 2
ModalSnoozeMs == 1

DeviceIds == {"A", "B"}
LANG_MODE == "auto"

(***************************************************************************)
(* Language                                                                *)
(***************************************************************************)
NavigatorIsJa == FALSE

detectLang(langMode) ==
    IF langMode = "en" \/ langMode = "jp" THEN langMode
    ELSE IF NavigatorIsJa THEN "jp" ELSE "en"

(***************************************************************************)
(* Helpers (time + math)                                                   *)
(***************************************************************************)
Abs(x) == IF x < 0 THEN 0 - x ELSE x
Max2(a, b) == IF a >= b THEN a ELSE b

\* A raw field value of a row: [t |-> kind, n |-> number].
Num(n) == [t |-> "num", n |-> n]
Undef == [t |-> "undef", n |-> 0]

\* typeof x === "number" && isFinite(x)
IsNum(x) == x.t = "num"

\* A raw timestamp: a Firestore Timestamp ("date"), a number of milliseconds
\* ("ms"), a number of seconds ("sec"), missing ("none") or unparseable ("bad").
\* The result is in milliseconds, 0 standing for null.
tsToMs(ts) ==
    IF ts.t = "none" THEN 0
    ELSE IF ts.t = "date" THEN ts.n
    ELSE IF ts.t = "sec" THEN ts.n * 1000
    ELSE IF ts.t = "ms" THEN ts.n
    ELSE 0

\* A timestamp whose toDate field is set but is not a function ("trap"):
\* ts.toDate() raises a TypeError.
tsToMsThrows(ts) == ts.t = "trap"

\* fmtHM: the hour and minute of the day, as minutes since midnight.
fmtHM(ms) == (ms \div 60000) % 1440

RECURSIVE series(_, _)
series(rows, key) ==
    IF rows = <<>> THEN <<>>
    ELSE LET r == Head(rows)
             ms == tsToMs(r.timestamp)
         IN  (IF IsNum(r[key]) /\ ms # 0
              THEN <<[ms |-> ms, v |-> r[key].n]>> ELSE <<>>)
             \o series(Tail(rows), key)

\* series converts the timestamp of every row, whatever the row's values.
seriesThrows(rows) == \E i \in 1..Len(rows) : tsToMsThrows(rows[i].timestamp)

\* The result of a delta computation: ok = FALSE stands for null.
NoDelta == [ok |-> FALSE, d |-> 0, fromMs |-> 0, toMs |-> 0, first |-> 0, last |-> 0]

deltaOverWindow(points, fromMs, toMs) ==
    LET within == SelectSeq(points, LAMBDA p : p.ms >= fromMs /\ p.ms <= toMs)
    IN  IF Len(within) < 2 THEN NoDelta
        ELSE LET first == within[1]
                 last == within[Len(within)]
             IN  [ok |-> TRUE, d |-> last.v - first.v, fromMs |-> first.ms,
                  toMs |-> last.ms, first |-> first.v, last |-> last.v]

deltaFromWindow(points, windowMs) ==
    IF Len(points) < 2 THEN NoDelta
    ELSE LET nowMs == points[Len(points)].ms
         IN  deltaOverWindow(points, nowMs - windowMs, nowMs)

lastStepDelta(points) ==
    IF Len(points) < 2 THEN NoDelta
    ELSE LET a == points[Len(points) - 1]
             b == points[Len(points)]
         IN  [ok |-> TRUE, d |-> b.v - a.v, fromMs |-> a.ms, toMs |-> b.ms,
              first |-> a.v, last |-> b.v]

RECURSIVE sum(_)
sum(arr) == IF arr = <<>> THEN 0 ELSE Head(arr) + sum(Tail(arr))

\* n^2 times the sum of the squared deviations from the mean; std(arr) is
\* the square root of this over n^3.
sqDev(arr) ==
    LET n == Len(arr)
        s == sum(arr)
    IN  sum([i \in 1..n |-> (n * arr[i] - s) * (n * arr[i] - s)])

\* Used only for the selected-device feed.  z > 2.8 is compared squared:
\* z^2 = n * (n * last - sum)^2 / sqDev, and 2.8^2 = 784 / 100.
zAnomaly(points) ==
    LET vals == [i \in 1..Len(points) |-> points[i].v]
        n == Len(vals)
        q == sqDev(vals)
        e == n * vals[n] - sum(vals)
    IN  IF n < 12 THEN FALSE
        ELSE IF q = 0 THEN FALSE
        ELSE 100 * n * e * e > 784 * q

(***************************************************************************)
(* Event store                                                             *)
(***************************************************************************)
NewEvent ==
    [firstSeenMs |-> 0, lastSeenMs |-> 0, lastFiredStage |-> 0, lastToastMs |-> 0,
     lastModalMs |-> 0, lastCriticalMs |-> 0, lastAckMs |-> 0]

\* The store after getOrInitEvent(eventKey); the entry is then ev[eventKey].
getOrInitEvent(ev, eventKey) ==
    IF eventKey \in DOMAIN ev THEN ev ELSE ev @@ (eventKey :> NewEvent)

\* Variant: the acknowledgement is dropped.
acknowledgeEvent_NotApplied(ev, eventKey, nowMs) == ev

\* Variant: the acknowledgement also restarts the occurrence.
acknowledgeEvent_RestartsOccurrence(ev, eventKey, nowMs) ==
    IF eventKey = "" THEN ev
    ELSE LET e1 == getOrInitEvent(ev, eventKey)
         IN  [e1 EXCEPT ![eventKey].lastAckMs = nowMs, ![eventKey].firstSeenMs = 0]

acknowledgeEvent(ev, eventKey, nowMs) ==
    IF eventKey = "" THEN ev
    ELSE LET e1 == getOrInitEvent(ev, eventKey)
         IN  [e1 EXCEPT ![eventKey].lastAckMs = nowMs]

\* Variant: an acknowledgement takes effect from the next evaluation time on.
isSnoozed_NextCycle(st, nowMs, snoozeMs) ==
    IF st.lastAckMs = 0 THEN FALSE
    ELSE nowMs - st.lastAckMs > 0 /\ nowMs - st.lastAckMs < snoozeMs

\* Variant: the snooze window includes its end.
isSnoozed_Inclusive(st, nowMs, snoozeMs) ==
    IF st.lastAckMs = 0 THEN FALSE
    ELSE nowMs - st.lastAckMs <= snoozeMs

isSnoozed(st, nowMs, snoozeMs) ==
    IF st.lastAckMs = 0 THEN FALSE
    ELSE nowMs - st.lastAckMs < snoozeMs

\* Variant: every observation restarts the occurrence.
markSeen_Restarts(ev, eventKey, nowMs) ==
    LET e1 == getOrInitEvent(ev, eventKey)
    IN  [e1 EXCEPT ![eventKey].lastSeenMs = nowMs,
                   ![eventKey].firstSeenMs = nowMs]

\* The branch "condition active": st.lastSeenMs = nowMs; if (!st.firstSeenMs) ...
markSeen(ev, eventKey, nowMs) ==
    LET e1 == getOrInitEvent(ev, eventKey)
    IN  [e1 EXCEPT ![eventKey].lastSeenMs = nowMs,
                   ![eventKey].firstSeenMs =
                       IF e1[eventKey].firstSeenMs = 0 THEN nowMs
                       ELSE e1[eventKey].firstSeenMs]

\* Variant: a clear keeps the first-seen time.
clearEvent_KeepsFirstSeen(ev, eventKey) ==
    [ev EXCEPT ![eventKey].lastSeenMs = 0,
               ![eventKey].lastFiredStage = 0]

\* Variant: a clear also forgets the acknowledgement.
clearEvent_ForgetsAck(ev, eventKey) ==
    [ev EXCEPT ![eventKey].firstSeenMs = 0,
               ![eventKey].lastSeenMs = 0,
               ![eventKey].lastFiredStage = 0,
               ![eventKey].lastAckMs = 0]

\* st.firstSeenMs = null; st.lastSeenMs = null; st.lastFiredStage = 0
clearEvent(ev, eventKey) ==
    [ev EXCEPT ![eventKey].firstSeenMs = 0,
               ![eventKey].lastSeenMs = 0,
               ![eventKey].lastFiredStage = 0]

offlineKey(deviceId) == deviceId \o ":offline"
anomalyKey(deviceId, metric) == deviceId \o ":" \o metric \o ":anomaly"

(***************************************************************************)
(* Message catalog: a text is the catalog key with its parameters          *)
(***************************************************************************)
NoDeltaStr == [sign |-> "", mag |-> 0, decimals |-> 0, unit |-> ""]
NoText == [key |-> "", lang |-> "", name |-> "", nums |-> <<>>, delta |-> NoDeltaStr]

Text(L, key, name, nums, delta) ==
    [key |-> key, lang |-> L, name |-> name, nums |-> nums, delta |-> delta]

buildOfflineEvent(deviceName, ageMs, alertMs, L) ==
    LET sec == ageMs \div 1000
        m == sec \div 60
        s == sec % 60
    IN  IF ageMs >= alertMs
        THEN [level |-> "alert", what |-> "offline",
              text |-> Text(L, "OFFLINE_ALERT", deviceName, <<m, s>>, NoDeltaStr)]
        ELSE [level |-> "warn", what |-> "offline",
              text |-> Text(L, "OFFLINE_WARN", deviceName, <<sec>>, NoDeltaStr)]

\* d.d.toFixed(k): values are in tenths, so one decimal is exact and no
\* decimals rounds the magnitude half up.
formatSpikeDelta(metric, d) ==
    LET sign == IF d.d >= 0 THEN "+" ELSE "-"
    IN  IF metric = "Temperature"
        THEN [sign |-> sign, mag |-> Abs(d.d), decimals |-> 1, unit |-> "C"]
        ELSE IF metric = "Humidity"
        THEN [sign |-> sign, mag |-> Abs(d.d), decimals |-> 1, unit |-> "%"]
        ELSE IF metric = "Pressure"
        THEN [sign |-> sign, mag |-> Abs(d.d), decimals |-> 1, unit |-> "hPa"]
        ELSE IF metric = "Light"
        THEN [sign |-> sign, mag |-> (Abs(d.d) + 5) \div 10, decimals |-> 0, unit |-> "lux"]
        ELSE [sign |-> sign, mag |-> Abs(d.d) * 10, decimals |-> 2, unit |-> ""]

formatWin(d, L) == <<fmtHM(d.fromMs), fmtHM(d.toMs)>>

metricWhat(L, metric) ==
    IF metric = "Temperature" THEN "WHAT_TEMP"
    ELSE IF metric = "Humidity" THEN "WHAT_HUM"
    ELSE IF metric = "Pressure" THEN "WHAT_PRESS"
    ELSE IF metric = "Light" THEN "WHAT_LIGHT"
    ELSE metric

makeSpikeText(L, deviceName, metric, d) ==
    LET deltaStr == formatSpikeDelta(metric, d)
        win == formatWin(d, L)
        key == IF metric = "Temperature" THEN "TOAST_TEMP_SPIKE"
               ELSE IF metric = "Humidity" THEN "TOAST_HUM_SPIKE"
               ELSE IF metric = "Pressure" THEN "TOAST_PRESS_SPIKE"
               ELSE IF metric = "Light" THEN "TOAST_LIGHT_SPIKE"
               ELSE "Sudden " \o metric \o " change"
    IN  Text(L, key, deviceName, win, deltaStr)

\* TEXT[L].MODAL_PERSIST(deviceName, what, mins)
modalPersistText(L, deviceName, what, mins) ==
    Text(L, "MODAL_PERSIST:" \o what, deviceName, <<mins>>, NoDeltaStr)

(***************************************************************************)
(* Global monitoring: evaluateGlobal                                       *)
(***************************************************************************)
WIN_5M == 5 * 60 * 1000
WIN_10M == 10 * 60 * 1000

\* Minimum sample counts of a signal: for any evaluation, for the windows.
MinStepPoints == 3
MinWindowPoints == 10

Metrics == <<"Temperature", "Humidity", "Pressure", "Light">>

\* HARD thresholds, in tenths of the unit.
TH ==
    [Temperature |-> [spike |-> 30, slow5m |-> 30, slow10m |-> 40],
     Humidity |-> [spike |-> 120, slow5m |-> 100, slow10m |-> 150],
     Pressure |-> [spike |-> 20, slow5m |-> 20, slow10m |-> 30],
     Light |-> [spike |-> 15000, slow5m |-> 12000, slow10m |-> 20000]]

Candidate(stage, level, eventKey, text, deviceName, metric, seenSinceMs) ==
    [stage |-> stage, level |-> level, eventKey |-> eventKey, text |-> text,
     deviceName |-> deviceName, metric |-> metric, seenSinceMs |-> seenSinceMs]

\* Variant: the dispersion check of the selected-device feed counts as a hit.
Hits_WithZScore(pts, th) ==
    LET step == lastStepDelta(pts)
        d5 == IF Len(pts) >= MinWindowPoints THEN deltaFromWindow(pts, WIN_5M) ELSE NoDelta
        d10 == IF Len(pts) >= MinWindowPoints THEN deltaFromWindow(pts, WIN_10M) ELSE NoDelta
    IN  [step |-> step, d5 |-> d5, d10 |-> d10,
         spikeHit |-> (step.ok /\ Abs(step.d) >= th.spike) \/ zAnomaly(pts),
         slow5Hit |-> d5.ok /\ Abs(d5.d) >= th.slow5m,
         slow10Hit |-> d10.ok /\ Abs(d10.d) >= th.slow10m]

\* The three deltas of one signal and which of them meet their threshold.
Hits(pts, th) ==
    LET step == lastStepDelta(pts)
        d5 == IF Len(pts) >= MinWindowPoints THEN deltaFromWindow(pts, WIN_5M) ELSE NoDelta
        d10 == IF Len(pts) >= MinWindowPoints THEN deltaFromWindow(pts, WIN_10M) ELSE NoDelta
    IN  [step |-> step, d5 |-> d5, d10 |-> d10,
         spikeHit |-> step.ok /\ Abs(step.d) >= th.spike,
         slow5Hit |-> d5.ok /\ Abs(d5.d) >= th.slow5m,
         slow10Hit |-> d10.ok /\ Abs(d10.d) >= th.slow10m]

\* Variant: the persist window itself is still short.
anomalyStage_Strict(seenFor, persistWindowMs) ==
    IF seenFor > persistWindowMs THEN 3 ELSE 2

\* Variant: a persisting anomaly is never raised to stage 3.
anomalyStage_StaysModal(seenFor, persistWindowMs) == 2

\* let stage = 2; if (seenFor >= persistWindowMs) stage = 3
anomalyStage(seenFor, persistWindowMs) ==
    IF seenFor >= persistWindowMs THEN 3 ELSE 2

\* One pass of the loop over metrics; s = [ev, cands].
\* Variant: the quiet window includes its end.
quietExceeded_Inclusive(st, nowMs, repeatWindowMs) ==
    LET quietFor == IF st.lastSeenMs # 0 THEN nowMs - st.lastSeenMs ELSE 0
    IN  st.lastSeenMs # 0 /\ quietFor >= repeatWindowMs

\* const quietFor = st.lastSeenMs ? nowMs - st.lastSeenMs : 0;
\* if (quietFor > repeatWindowMs) ...
quietExceeded(st, nowMs, repeatWindowMs) ==
    LET quietFor == IF st.lastSeenMs # 0 THEN nowMs - st.lastSeenMs ELSE 0
    IN  quietFor > repeatWindowMs

\* Variant: the widest window that hit is reported.
dUse_WindowFirst(h) ==
    IF h.slow10Hit THEN h.d10
    ELSE IF h.slow5Hit THEN h.d5
    ELSE h.step

\* if (spikeHit) dUse = step; else if (slow5Hit) dUse = d5; else dUse = d10 || step;
dUse(h) ==
    IF h.spikeHit THEN h.step
    ELSE IF h.slow5Hit THEN h.d5
    ELSE IF h.d10.ok THEN h.d10 ELSE h.step

\* Variant: the minutes figure has no floor.
persistMinutes_NoFloor(seenFor) == seenFor \div 60000

\* const mins = Math.floor(seenFor / 60000); ... Math.max(30, mins)
persistMinutes(seenFor) == Max2(30, seenFor \div 60000)

processMetric(s, deviceId, deviceName, rows, metric, nowMs, L, repeatWindowMs, persistWindowMs, modalSnoozeMs) ==
    LET pts == series(rows, metric)
        h == Hits(pts, TH[metric])
        active == h.spikeHit \/ h.slow5Hit \/ h.slow10Hit
        eventKey == anomalyKey(deviceId, metric)
    IN  IF Len(pts) < MinStepPoints THEN s
        ELSE IF ~active
        THEN IF eventKey \in DOMAIN s.ev
             THEN LET st == s.ev[eventKey]
                  IN  IF quietExceeded(st, nowMs, repeatWindowMs)
                      THEN [s EXCEPT !.ev = clearEvent(s.ev, eventKey)]
                      ELSE s
             ELSE s
        ELSE LET ev1 == markSeen(s.ev, eventKey, nowMs)
                 st == ev1[eventKey]
             IN  IF isSnoozed(st, nowMs, modalSnoozeMs) THEN [s EXCEPT !.ev = ev1]
                 ELSE LET text == makeSpikeText(L, deviceName, metric, dUse(h))
                          seenFor == nowMs - (IF st.firstSeenMs # 0 THEN st.firstSeenMs ELSE nowMs)
                          stage == anomalyStage(seenFor, persistWindowMs)
                          level == IF stage = 3 THEN "critical" ELSE "modal"
                          ev2 == IF stage > st.lastFiredStage
                                 THEN [ev1 EXCEPT ![eventKey].lastFiredStage = stage]
                                 ELSE ev1
                          mins == persistMinutes(seenFor)
                          c == IF stage = 3
                               THEN Candidate(stage, level, eventKey,
                                        modalPersistText(L, deviceName, metricWhat(L, metric),
                                                         mins),
                                        deviceName, metric, st.firstSeenMs)
                               ELSE Candidate(stage, level, eventKey, text, deviceName,
                                              metric, st.firstSeenMs)
                      IN  [ev |-> ev2, cands |-> Append(s.cands, c)]

RECURSIVE processMetrics(_, _, _, _, _, _, _, _, _, _)
processMetrics(s, deviceId, deviceName, rows, ms, nowMs, L, repeatWindowMs, persistWindowMs, modalSnoozeMs) ==
    IF ms = <<>> THEN s
    ELSE processMetrics(
             processMetric(s, deviceId, deviceName, rows, Head(ms), nowMs, L,
                           repeatWindowMs, persistWindowMs, modalSnoozeMs),
             deviceId, deviceName, rows, Tail(ms), nowMs, L, repeatWindowMs,
             persistWindowMs, modalSnoozeMs)

\* Variant: the alert threshold itself still counts as a warning.
offlineCandidate_StrictAlert(deviceName, eventKey, age, alertMs, L, seenSinceMs) ==
    LET ev == buildOfflineEvent(deviceName, age, alertMs, L)
    IN  IF age > alertMs
        THEN Candidate(2, "modal", eventKey, ev.text, deviceName, "offline", seenSinceMs)
        ELSE Candidate(1, "warn", eventKey, ev.text, deviceName, "offline", seenSinceMs)

\* The offline candidate of a device whose age is known.
offlineCandidate(deviceName, eventKey, age, alertMs, L, seenSinceMs) ==
    LET ev == buildOfflineEvent(deviceName, age, alertMs, L)
    IN  IF age >= alertMs
        THEN Candidate(2, "modal", eventKey, ev.text, deviceName, "offline", seenSinceMs)
        ELSE Candidate(1, "warn", eventKey, ev.text, deviceName, "offline", seenSinceMs)

\* Variant: a recovery leaves the offline event as it is.
processOffline_KeepOnRecovery(s, deviceId, deviceName, lastDataMs, nowMs, L, warnMs, alertMs, modalSnoozeMs) ==
    LET age == nowMs - lastDataMs
        eventKey == offlineKey(deviceId)
    IN  IF age >= warnMs
        THEN LET ev1 == markSeen(s.ev, eventKey, nowMs)
                 st == ev1[eventKey]
             IN  IF ~isSnoozed(st, nowMs, modalSnoozeMs)
                 THEN [ev |-> ev1,
                       cands |-> Append(s.cands,
                           offlineCandidate(deviceName, eventKey, age, alertMs, L,
                                            st.firstSeenMs))]
                 ELSE [s EXCEPT !.ev = ev1]
        ELSE s

\* Offline detection of a device with a last-data time; s = [ev, cands].
processOffline(s, deviceId, deviceName, lastDataMs, nowMs, L, warnMs, alertMs, modalSnoozeMs) ==
    LET age == nowMs - lastDataMs
        eventKey == offlineKey(deviceId)
    IN  IF age >= warnMs
        THEN LET ev1 == markSeen(s.ev, eventKey, nowMs)
                 st == ev1[eventKey]
             IN  IF ~isSnoozed(st, nowMs, modalSnoozeMs)
                 THEN [ev |-> ev1,
                       cands |-> Append(s.cands,
                           offlineCandidate(deviceName, eventKey, age, alertMs, L,
                                            st.firstSeenMs))]
                 ELSE [s EXCEPT !.ev = ev1]
        ELSE IF eventKey \in DOMAIN s.ev
             THEN [s EXCEPT !.ev = clearEvent(s.ev, eventKey)]
             ELSE s

\* Variant: an offline event already marked seen at this very time yields no
\* second candidate.
processNoData_OncePerInstant(s, deviceId, deviceName, nowMs, L, alertMs, modalSnoozeMs) ==
    LET eventKey == offlineKey(deviceId)
        ev0 == getOrInitEvent(s.ev, eventKey)
        ev1 == markSeen(s.ev, eventKey, nowMs)
        st == ev1[eventKey]
    IN  IF ~isSnoozed(st, nowMs, modalSnoozeMs) /\ ev0[eventKey].lastSeenMs # nowMs
        THEN LET ev == buildOfflineEvent(deviceName, alertMs + 1, alertMs, L)
             IN  [ev |-> ev1,
                  cands |-> Append(s.cands,
                      Candidate(2, "modal", eventKey, ev.text, deviceName, "offline",
                                st.firstSeenMs))]
        ELSE [s EXCEPT !.ev = ev1]

\* Variant: a snoozed offline event is not marked seen either.
processNoData_MutedWhenSnoozed(s, deviceId, deviceName, nowMs, L, alertMs, modalSnoozeMs) ==
    LET eventKey == offlineKey(deviceId)
        ev0 == getOrInitEvent(s.ev, eventKey)
        ev1 == markSeen(s.ev, eventKey, nowMs)
        st == ev1[eventKey]
    IN  IF ~isSnoozed(st, nowMs, modalSnoozeMs)
        THEN LET ev == buildOfflineEvent(deviceName, alertMs + 1, alertMs, L)
             IN  [ev |-> ev1,
                  cands |-> Append(s.cands,
                      Candidate(2, "modal", eventKey, ev.text, deviceName, "offline",
                                st.firstSeenMs))]
        ELSE [s EXCEPT !.ev = ev0]

\* Variant: a device without a last-data time is skipped.
processNoData_Skip(s, deviceId, deviceName, nowMs, L, alertMs, modalSnoozeMs) == s

\* Offline detection of a device without a last-data time.
processNoData(s, deviceId, deviceName, nowMs, L, alertMs, modalSnoozeMs) ==
    LET eventKey == offlineKey(deviceId)
        ev1 == markSeen(s.ev, eventKey, nowMs)
        st == ev1[eventKey]
    IN  IF ~isSnoozed(st, nowMs, modalSnoozeMs)
        THEN LET ev == buildOfflineEvent(deviceName, alertMs + 1, alertMs, L)
             IN  [ev |-> ev1,
                  cands |-> Append(s.cands,
                      Candidate(2, "modal", eventKey, ev.text, deviceName, "offline",
                                st.firstSeenMs))]
        ELSE [s EXCEPT !.ev = ev1]

\* Variant: anomaly detection also runs for a device without a last-data time.
processDevice_DetectsWithoutLastData(s, d, nowMs, L, warnMs, alertMs, repeatWindowMs, persistWindowMs, modalSnoozeMs) ==
    LET deviceId == d.deviceId
        deviceName == IF d.deviceName # "" THEN d.deviceName
                      ELSE IF deviceId # "" THEN deviceId ELSE "Device"
    IN  processMetrics(
            IF d.lastDataMs = 0
            THEN processNoData(s, deviceId, deviceName, nowMs, L, alertMs, modalSnoozeMs)
            ELSE processOffline(s, deviceId, deviceName, d.lastDataMs, nowMs, L,
                                warnMs, alertMs, modalSnoozeMs),
            deviceId, deviceName, d.rows, Metrics, nowMs, L, repeatWindowMs,
            persistWindowMs, modalSnoozeMs)

\* One pass of the loop over devices.
processDevice(s, d, nowMs, L, warnMs, alertMs, repeatWindowMs, persistWindowMs, modalSnoozeMs) ==
    LET deviceId == d.deviceId
        deviceName == IF d.deviceName # "" THEN d.deviceName
                      ELSE IF deviceId # "" THEN deviceId ELSE "Device"
    IN  IF d.lastDataMs = 0
        THEN processNoData(s, deviceId, deviceName, nowMs, L, alertMs, modalSnoozeMs)
        ELSE processMetrics(
                 processOffline(s, deviceId, deviceName, d.lastDataMs, nowMs, L,
                                warnMs, alertMs, modalSnoozeMs),
                 deviceId, deviceName, d.rows, Metrics, nowMs, L, repeatWindowMs,
                 persistWindowMs, modalSnoozeMs)

\* A pass over a device with a last-data time builds the series of its rows
\* once its offline detection is done; the exception of a conversion is not
\* caught anywhere in evaluateGlobal.
processDeviceThrows(d) == d.lastDataMs # 0 /\ seriesThrows(d.rows)

RECURSIVE processDevices(_, _, _, _, _, _, _, _, _)
processDevices(s, devs, nowMs, L, warnMs, alertMs, repeatWindowMs, persistWindowMs, modalSnoozeMs) ==
    IF devs = <<>> THEN s
    ELSE processDevices(
             processDevice(s, Head(devs), nowMs, L, warnMs, alertMs, repeatWindowMs,
                           persistWindowMs, modalSnoozeMs),
             Tail(devs), nowMs, L, warnMs, alertMs, repeatWindowMs,
             persistWindowMs, modalSnoozeMs)

(***************************************************************************)
(* Arbitration                                                             *)
(***************************************************************************)
\* Variant: the lower stage sorts first.
compareCandidates_LowStageFirst(a, b) ==
    IF b.stage # a.stage THEN a.stage - b.stage
    ELSE b.seenSinceMs - a.seenSinceMs

\* The comparator of candidates.sort: negative when a goes before b.
compareCandidates(a, b) ==
    IF b.stage # a.stage THEN b.stage - a.stage
    ELSE b.seenSinceMs - a.seenSinceMs

\* x inserted behind every element that does not go after it (the sort is stable).
RECURSIVE insertSorted(_, _)
insertSorted(sorted, x) ==
    IF sorted = <<>> THEN <<x>>
    ELSE IF compareCandidates(Head(sorted), x) <= 0
         THEN <<Head(sorted)>> \o insertSorted(Tail(sorted), x)
         ELSE <<x>> \o sorted

RECURSIVE sortCandidates(_)
sortCandidates(cs) ==
    IF cs = <<>> THEN <<>>
    ELSE insertSorted(sortCandidates(SubSeq(cs, 1, Len(cs) - 1)), cs[Len(cs)])

NullNote == [level |-> "", text |-> NoText, eventKey |-> ""]
Note(level, text, eventKey) == [level |-> level, text |-> text, eventKey |-> eventKey]

\* Variant: a top candidate of stage 1 is dropped.
buildResult_DropsStage1(sorted, L) ==
    IF sorted = <<>> THEN [toast |-> NullNote, modal |-> NullNote, lang |-> L]
    ELSE LET top == sorted[1]
         IN  IF top.stage = 3
             THEN [modal |-> Note("critical", top.text, top.eventKey),
                   toast |-> NullNote, lang |-> L]
             ELSE IF top.stage = 2
             THEN [modal |-> Note("modal", top.text, top.eventKey),
                   toast |-> NullNote, lang |-> L]
             ELSE [toast |-> NullNote, modal |-> NullNote, lang |-> L]

\* The record returned for the sorted candidates.
buildResult(sorted, L) ==
    IF sorted = <<>> THEN [toast |-> NullNote, modal |-> NullNote, lang |-> L]
    ELSE LET top == sorted[1]
         IN  IF top.stage = 3
             THEN [modal |-> Note("critical", top.text, top.eventKey),
                   toast |-> NullNote, lang |-> L]
             ELSE [modal |-> Note("modal", top.text, top.eventKey),
                   toast |-> NullNote, lang |-> L]

\* evaluateGlobal: the store, the sorted candidates and the result it leaves.
\* When the pass over a device raises, the call leaves the store as it is at
\* that point and returns nothing (threw).
evaluateGlobal(ev, devs, nowMs, langMode, warnMs, alertMs, repeatWindowMs, persistWindowMs, modalSnoozeMs, ack) ==
    LET L == detectLang(langMode)
        ev0 == acknowledgeEvent(ev, ack, nowMs)
        bad == {i \in 1..Len(devs) : processDeviceThrows(devs[i])}
    IN  IF bad = {}
        THEN LET s == processDevices([ev |-> ev0, cands |-> <<>>], devs, nowMs, L,
                                     warnMs, alertMs, repeatWindowMs, persistWindowMs,
                                     modalSnoozeMs)
                 sorted == sortCandidates(s.cands)
             IN  [ev |-> s.ev, candidates |-> sorted, result |-> buildResult(sorted, L),
                  threw |-> FALSE]
        ELSE LET b == CHOOSE i \in bad : \A j \in bad : i <= j
                 s == processDevices([ev |-> ev0, cands |-> <<>>], SubSeq(devs, 1, b - 1),
                                     nowMs, L, warnMs, alertMs, repeatWindowMs,
                                     persistWindowMs, modalSnoozeMs)
                 d == devs[b]
                 deviceName == IF d.deviceName # "" THEN d.deviceName
                               ELSE IF d.deviceId # "" THEN d.deviceId ELSE "Device"
                 s2 == processOffline(s, d.deviceId, deviceName, d.lastDataMs, nowMs, L,
                                      warnMs, alertMs, modalSnoozeMs)
             IN  [ev |-> s2.ev, candidates |-> <<>>,
                  result |-> [toast |-> NullNote, modal |-> NullNote, lang |-> ""],
                  threw |-> TRUE]

(***************************************************************************)
(* The earlier engine (the version before the threshold-based detection).  *)
(* Its store operations, offline detection, sort and texts of offline      *)
(* events are the ones above, word for word; its anomaly detection and the *)
(* record it returns for a top candidate of stage 1 are its own.           *)
(***************************************************************************)
\* Minimum sample count of a signal in the earlier engine.
OldMinPoints == 12

\* spike1m and spike10m, in tenths of the unit.
OldTH ==
    [Temperature |-> [spike1m |-> 25, spike10m |-> 40],
     Humidity |-> [spike1m |-> 80, spike10m |-> 140],
     Pressure |-> [spike1m |-> 15, spike10m |-> 30],
     Light |-> [spike1m |-> 4000, spike10m |-> 9000]]

\* spikeCheck(points, minutesWindow, absThreshold)
OldSpikeCheck(points, minutesWindow, absThreshold) ==
    IF points = <<>> THEN NoDelta
    ELSE LET nowMs == points[Len(points)].ms
             d == deltaOverWindow(points, nowMs - minutesWindow * 60 * 1000, nowMs)
         IN  IF d.ok /\ Abs(d.d) >= absThreshold THEN d ELSE NoDelta

\* lastN(arr, n)
OldLastN(arr, n) == IF Len(arr) <= n THEN arr ELSE SubSeq(arr, Len(arr) - n + 1, Len(arr))

\* zAnomaly(points, 2.9), compared squared: 2.9^2 = 841 / 100.
OldZAnomaly(points) ==
    LET vals == [i \in 1..Len(points) |-> points[i].v]
        n == Len(vals)
        q == sqDev(vals)
        e == n * vals[n] - sum(vals)
    IN  IF n < 12 THEN FALSE
        ELSE IF q = 0 THEN FALSE
        ELSE 100 * n * e * e > 841 * q

\* The texts of the earlier engine that differ from the current ones.
OldMakeSpikeText(L, deviceName, metric, d) ==
    Text(L, "OLD_TOAST_SPIKE:" \o metric, deviceName, formatWin(d, L), formatSpikeDelta(metric, d))

OldModalRepeatText(L, deviceName, what) ==
    Text(L, "MODAL_REPEAT:" \o what, deviceName, <<>>, NoDeltaStr)

\* Math.min(2 * 60 * 1000, repeatWindowMs / 5), in the time unit of the windows.
OldRepeatAfter(repeatWindowMs) ==
    IF 2 * 60 * 1000 <= repeatWindowMs \div 5 THEN 2 * 60 * 1000 ELSE repeatWindowMs \div 5

\* One signal of one device in the earlier engine; s = [ev, cands].
OldProcessMetric(s, deviceId, deviceName, rows, metric, nowMs, L, repeatWindowMs, persistWindowMs, modalSnoozeMs) ==
    LET pts == series(rows, metric)
        d1 == OldSpikeCheck(pts, 1, OldTH[metric].spike1m)
        d10 == OldSpikeCheck(pts, 10, OldTH[metric].spike10m)
        z == OldZAnomaly(OldLastN(pts, 40))
        active == d1.ok \/ d10.ok \/ z
        eventKey == anomalyKey(deviceId, metric)
    IN  IF Len(pts) < OldMinPoints THEN s
        ELSE IF ~active
        THEN IF eventKey \in DOMAIN s.ev /\ quietExceeded(s.ev[eventKey], nowMs, repeatWindowMs)
             THEN [s EXCEPT !.ev = clearEvent(s.ev, eventKey)]
             ELSE s
        ELSE LET ev1 == markSeen(s.ev, eventKey, nowMs)
                 st == ev1[eventKey]
             IN  IF isSnoozed(st, nowMs, modalSnoozeMs) THEN [s EXCEPT !.ev = ev1]
                 ELSE LET dShown == IF d1.ok THEN d1 ELSE IF d10.ok THEN d10
                                    ELSE lastStepDelta(pts)
                          seenFor == nowMs - (IF st.firstSeenMs # 0 THEN st.firstSeenMs ELSE nowMs)
                          stage == IF seenFor >= persistWindowMs THEN 3
                                   ELSE IF seenFor >= OldRepeatAfter(repeatWindowMs)
                                           \/ st.lastFiredStage >= 1 THEN 2
                                   ELSE 1
                          level == IF stage = 3 THEN "critical"
                                   ELSE IF stage = 2 THEN "modal" ELSE "warn"
                          ev2 == IF stage > st.lastFiredStage
                                 THEN [ev1 EXCEPT ![eventKey].lastFiredStage = stage]
                                 ELSE ev1
                          text == IF stage = 2
                                  THEN OldModalRepeatText(L, deviceName, metricWhat(L, metric))
                                  ELSE IF stage = 3
                                  THEN modalPersistText(L, deviceName, metricWhat(L, metric),
                                                        persistMinutes(seenFor))
                                  ELSE OldMakeSpikeText(L, deviceName, metric, dShown)
                      IN  [ev |-> ev2,
                           cands |-> Append(s.cands,
                               Candidate(stage, level, eventKey, text, deviceName, metric,
                                         st.firstSeenMs))]

RECURSIVE OldProcessMetrics(_, _, _, _, _, _, _, _, _, _)
OldProcessMetrics(s, deviceId, deviceName, rows, ms, nowMs, L, repeatWindowMs, persistWindowMs, modalSnoozeMs) ==
    IF ms = <<>> THEN s
    ELSE OldProcessMetrics(
             OldProcessMetric(s, deviceId, deviceName, rows, Head(ms), nowMs, L,
                              repeatWindowMs, persistWindowMs, modalSnoozeMs),
             deviceId, deviceName, rows, Tail(ms), nowMs, L, repeatWindowMs,
             persistWindowMs, modalSnoozeMs)

OldProcessDevice(s, d, nowMs, L, warnMs, alertMs, repeatWindowMs, persistWindowMs, modalSnoozeMs) ==
    LET deviceId == d.deviceId
        deviceName == IF d.deviceName # "" THEN d.deviceName
                      ELSE IF deviceId # "" THEN deviceId ELSE "Device"
    IN  IF d.lastDataMs = 0
        THEN processNoData(s, deviceId, deviceName, nowMs, L, alertMs, modalSnoozeMs)
        ELSE OldProcessMetrics(
                 processOffline(s, deviceId, deviceName, d.lastDataMs, nowMs, L,
                                warnMs, alertMs, modalSnoozeMs),
                 deviceId, deviceName, d.rows, Metrics, nowMs, L, repeatWindowMs,
                 persistWindowMs, modalSnoozeMs)

RECURSIVE OldProcessDevices(_, _, _, _, _, _, _, _, _)
OldProcessDevices(s, devs, nowMs, L, warnMs, alertMs, repeatWindowMs, persistWindowMs, modalSnoozeMs) ==
    IF devs = <<>> THEN s
    ELSE OldProcessDevices(
             OldProcessDevice(s, Head(devs), nowMs, L, warnMs, alertMs, repeatWindowMs,
                              persistWindowMs, modalSnoozeMs),
             Tail(devs), nowMs, L, warnMs, alertMs, repeatWindowMs,
             persistWindowMs, modalSnoozeMs)

\* The record the earlier engine returns: a top candidate of stage 1 is a toast.
OldBuildResult(sorted, L) ==
    IF sorted = <<>> THEN [toast |-> NullNote, modal |-> NullNote, lang |-> L]
    ELSE LET top == sorted[1]
         IN  IF top.stage = 3
             THEN [modal |-> Note("critical", top.text, top.eventKey),
                   toast |-> NullNote, lang |-> L]
             ELSE IF top.stage = 2
             THEN [modal |-> Note("modal", top.text, top.eventKey),
                   toast |-> NullNote, lang |-> L]
             ELSE [toast |-> Note(IF top.level = "alert" THEN "alert" ELSE "warn",
                                  top.text, top.eventKey),
                   modal |-> NullNote, lang |-> L]

\* evaluateGlobal of the earlier engine, on rows it can convert.
OldEvaluateGlobal(ev, devs, nowMs, langMode, warnMs, alertMs, repeatWindowMs, persistWindowMs, modalSnoozeMs, ack) ==
    LET L == detectLang(langMode)
        ev0 == acknowledgeEvent(ev, ack, nowMs)
        s == OldProcessDevices([ev |-> ev0, cands |-> <<>>], devs, nowMs, L, warnMs,
                               alertMs, repeatWindowMs, persistWindowMs, modalSnoozeMs)
        sorted == sortCandidates(s.cands)
    IN  [ev |-> s.ev, candidates |-> sorted, result |-> OldBuildResult(sorted, L)]

(***************************************************************************)
(* Inputs                                                                  *)
(***************************************************************************)
\* A reading uploaded at second i*10 with the given temperature (tenths).
Reading(i, temp) ==
    [timestamp |-> [t |-> "date", n |-> i * 10000], Temperature |-> Num(temp),
     Humidity |-> Undef, Pressure |-> Undef, Light |-> Undef]

Readings(temps) == [i \in 1..Len(temps) |-> Reading(i, temps[i])]

\* The row lists a snapshot may carry: none, a steady signal, a sudden step.
RowsCatalog ==
    { <<>>, Readings(<<200, 200, 200>>), Readings(<<200, 200, 240>>) }

\* Readings uploaded every stepMs milliseconds with the given temperatures.
ReadingsEvery(stepMs, temps) ==
    [i \in 1..Len(temps) |->
        [timestamp |-> [t |-> "date", n |-> i * stepMs], Temperature |-> Num(temps[i]),
         Humidity |-> Undef, Pressure |-> Undef, Light |-> Undef]]

\* Temperature histories of a device that keeps uploading: two samples with a
\* jump, a short steady one, a short one with a jump, four samples that climb
\* 3.6 C in small steps, ten that climb 3.6 C within 90 seconds, ten that climb
\* 4.5 C in nine minutes (2.5 C in the last five), twelve that are flat but
\* for a last step of 1.0 C, twelve a minute apart that climb 0.5 C a minute
\* and end on a 4.0 C step, twelve a minute apart that climb 0.7 C a minute.
SignalCatalog ==
    { Readings(<<200, 240>>),
      Readings(<<200, 200, 200>>),
      Readings(<<200, 200, 240>>),
      Readings(<<200, 212, 224, 236>>),
      Readings(<<200, 204, 208, 212, 216, 220, 224, 228, 232, 236>>),
      ReadingsEvery(60000, <<200, 205, 210, 215, 220, 225, 230, 235, 240, 245>>),
      Readings(<<200, 200, 200, 200, 200, 200, 200, 200, 200, 200, 200, 210>>),
      ReadingsEvery(60000, <<200, 205, 210, 215, 220, 225, 230, 235, 240, 245, 250, 290>>),
      ReadingsEvery(60000, <<200, 207, 214, 221, 228, 235, 242, 249, 256, 263, 270, 277>>) }

EventKeys ==
    {offlineKey(d) : d \in DeviceIds} \cup {anomalyKey(d, "Temperature") : d \in DeviceIds}

KeysOf(deviceId) == {offlineKey(deviceId), anomalyKey(deviceId, "Temperature")}

(***************************************************************************)
(* What an evaluation observes of a snapshot d at time nowMs               *)
(***************************************************************************)
HasLastData(d) == d.lastDataMs # 0

OfflineObserved(d, nowMs) == ~HasLastData(d) \/ nowMs - d.lastDataMs >= WarnMs

AnomalyObserved(d, metric) ==
    LET pts == series(d.rows, metric)
        h == Hits(pts, TH[metric])
    IN  /\ HasLastData(d)
        /\ Len(pts) >= MinStepPoints
        /\ (h.spikeHit \/ h.slow5Hit \/ h.slow10Hit)

ConditionObserved(d, k, nowMs) ==
    IF k = offlineKey(d.deviceId) THEN OfflineObserved(d, nowMs)
    ELSE IF k = anomalyKey(d.deviceId, "Temperature") THEN AnomalyObserved(d, "Temperature")
    ELSE FALSE

\* The stage of the candidate that cs holds for eventKey, 0 if it holds none.
StageOf(cs, eventKey) ==
    IF \E j \in 1..Len(cs) : cs[j].eventKey = eventKey
    THEN (CHOOSE c \in {cs[j] : j \in 1..Len(cs)} : c.eventKey = eventKey).stage
    ELSE 0

\* The keys of a snapshot whose condition a pass over it sees active.
ObservedIn(d) == {k \in KeysOf(d.deviceId) : ConditionObserved(d, k, clock)}

\* The same for a whole payload: the loop stops at the first snapshot that
\* raises, whose offline detection has run.
ObservedBy(devs) ==
    UNION { IF processDeviceThrows(devs[i])
            THEN ObservedIn(devs[i]) \cap {offlineKey(devs[i].deviceId)}
            ELSE ObservedIn(devs[i]) :
            i \in {i \in 1..Len(devs) : \A j \in 1..(i - 1) : ~processDeviceThrows(devs[j])} }

(***************************************************************************)
(* State machine.  An evaluation runs to completion: from EvalBegin to     *)
(* EvalReturn no other operation is enabled.                               *)
(***************************************************************************)
NoDevice == [deviceId |-> "", deviceName |-> "", rows |-> <<>>, lastDataMs |-> 0]
NullResult == [toast |-> NullNote, modal |-> NullNote, lang |-> ""]

Init ==
    /\ DEVICES = <<"A">>
    /\ EVENTS = [k \in {} |-> NewEvent]
    /\ clock = 1
    /\ pc = "init"
    /\ idx = 0
    /\ dev = NoDevice
    /\ candidates = <<>>
    /\ result = NullResult
    /\ ackEventKey = ""
    /\ emitted = [k \in EventKeys |-> 0]
    /\ offline = [d \in DeviceIds |-> [since |-> 0, again |-> FALSE]]
    /\ acked = [k \in EventKeys |-> [at |-> 0, fired |-> 0, live |-> FALSE]]
    /\ devices = <<>>
    /\ TWIN = [k \in {} |-> NewEvent]
    /\ GLOBAL_STATE = [d \in {} |-> NoDevice]
    /\ MODAL_VISIBLE = FALSE
    /\ MODAL_EVENT_KEY = ""
    /\ shown = ""
    /\ click = [done |-> FALSE, key |-> "", ack |-> ""]
    /\ observed = {}
    /\ GLOBAL_POLL_INFLIGHT = FALSE
    /\ poll = 0
    /\ loops = 0
    /\ mixed = FALSE
    /\ input = <<>>
    /\ output = <<>>
    /\ LAST_GLOBAL_TOAST_EVENT = ""
    /\ LAST_GLOBAL_TOAST_MS = 0
    /\ toasted = FALSE
    /\ public_readings = <<>>

\* Date.now() advances between evaluations.
Tick ==
    /\ pc # "loop"
    /\ clock < MaxTime
    /\ clock' = clock + 1
    /\ pc' = "tick"
    /\ devices' = <<>>
    /\ UNCHANGED <<DEVICES, EVENTS, idx, dev, candidates, result, ackEventKey,
                   emitted, offline, acked, TWIN, dashVars, observed, pollVars,
                   pureVars,
                   toastVars, public_readings>>

\* evaluateGlobal up to its loop: the acknowledgement is applied first.  The
\* caller acknowledges the key of the modal it was last handed, or nothing.
EvalBegin(ack) ==
    /\ pc # "loop"
    /\ ack = "" \/ ack = result.modal.eventKey
    /\ EVENTS' = acknowledgeEvent(EVENTS, ack, clock)
    /\ ackEventKey' = ack
    /\ acked' = IF ack = "" THEN acked
                ELSE [acked EXCEPT ![ack] =
                        [at |-> clock, live |-> TRUE,
                         fired |-> IF ack \in DOMAIN EVENTS
                                   THEN EVENTS[ack].lastFiredStage ELSE 0]]
    /\ candidates' = <<>>
    /\ result' = NullResult
    /\ idx' = 1
    /\ dev' = NoDevice
    /\ pc' = "loop"
    /\ devices' = <<>>
    /\ UNCHANGED <<DEVICES, clock, emitted, offline, TWIN, dashVars, observed,
                   pollVars, pureVars,
                   toastVars, public_readings>>

\* One pass of the loop over devices, on the snapshot supplied for DEVICES[idx].
EvalDevice(rows, lastDataMs) ==
    /\ pc = "loop"
    /\ idx <= Len(DEVICES)
    /\ LET d == [deviceId |-> DEVICES[idx], deviceName |-> DEVICES[idx],
                 rows |-> rows, lastDataMs |-> lastDataMs]
           s == processDevice([ev |-> EVENTS, cands |-> candidates], d, clock,
                              detectLang(LANG_MODE), WarnMs, AlertMs, RepeatWindowMs,
                              PersistWindowMs, ModalSnoozeMs)
       IN  /\ ~processDeviceThrows(d)
           /\ dev' = d
           /\ EVENTS' = s.ev
           /\ candidates' = s.cands
           /\ emitted' = [k \in EventKeys |->
                             IF k \in KeysOf(d.deviceId) THEN StageOf(s.cands, k)
                             ELSE emitted[k]]
           /\ offline' = [offline EXCEPT ![d.deviceId] =
                             IF OfflineObserved(d, clock)
                             THEN IF @.since # 0 THEN @
                                  ELSE [since |-> clock, again |-> @.again]
                             ELSE IF @.since # 0 THEN [since |-> 0, again |-> TRUE]
                                  ELSE @]
           /\ acked' = [k \in EventKeys |->
                           IF k \in KeysOf(d.deviceId)
                           THEN [acked[k] EXCEPT
                                    !.live = @ /\ ConditionObserved(d, k, clock)]
                           ELSE acked[k]]
           /\ devices' = Append(devices, d)
           /\ observed' = observed \cup ObservedIn(d)
    /\ idx' = idx + 1
    /\ UNCHANGED <<DEVICES, clock, pc, result, ackEventKey, TWIN, dashVars, pollVars,
                   pureVars,
                   toastVars, public_readings>>

\* The end of evaluateGlobal: sort, pick the top candidate, return.
EvalReturn ==
    /\ pc = "loop"
    /\ idx = Len(DEVICES) + 1
    /\ candidates' = sortCandidates(candidates)
    /\ result' = buildResult(candidates', detectLang(LANG_MODE))
    /\ dev' = NoDevice
    /\ pc' = "return"
    /\ UNCHANGED <<DEVICES, EVENTS, clock, idx, ackEventKey, emitted, offline, acked,
                   devices, TWIN, dashVars, observed, pollVars, pureVars,
                   toastVars, public_readings>>

Next ==
    \/ Tick
    \/ \E ack \in {""} \cup EventKeys : EvalBegin(ack)
    \/ \E rows \in RowsCatalog, lastDataMs \in 0..clock : EvalDevice(rows, lastDataMs)
    \/ EvalReturn

Spec == Init /\ [][Next]_vars

(***************************************************************************)
(* Two engines side by side: EVENTS and TWIN are fed the same snapshots at *)
(* the same times; EVENTS is given any acknowledgements, TWIN none.  Two   *)
(* engines that each agree with the unacknowledged one agree with each     *)
(* other.                                                                  *)
(***************************************************************************)
\* The keys of the configured devices.
ConfiguredKeys == UNION {KeysOf(DEVICES[i]) : i \in 1..Len(DEVICES)}

PairBegin(ack) ==
    /\ pc # "loop"
    /\ EVENTS' = acknowledgeEvent(EVENTS, ack, clock)
    /\ TWIN' = acknowledgeEvent(TWIN, "", clock)
    /\ ackEventKey' = ack
    /\ candidates' = <<>>
    /\ result' = NullResult
    /\ idx' = 1
    /\ dev' = NoDevice
    /\ pc' = "loop"
    /\ devices' = <<>>
    /\ UNCHANGED <<DEVICES, clock, emitted, offline, acked, dashVars, observed,
                   pollVars, pureVars,
                   toastVars, public_readings>>

PairDevice(rows, lastDataMs) ==
    /\ pc = "loop"
    /\ idx <= Len(DEVICES)
    /\ LET d == [deviceId |-> DEVICES[idx], deviceName |-> DEVICES[idx],
                 rows |-> rows, lastDataMs |-> lastDataMs]
           s == processDevice([ev |-> EVENTS, cands |-> candidates], d, clock,
                              detectLang(LANG_MODE), WarnMs, AlertMs, RepeatWindowMs,
                              PersistWindowMs, ModalSnoozeMs)
           s2 == processDevice([ev |-> TWIN, cands |-> <<>>], d, clock,
                               detectLang(LANG_MODE), WarnMs, AlertMs, RepeatWindowMs,
                               PersistWindowMs, ModalSnoozeMs)
       IN  /\ dev' = d
           /\ EVENTS' = s.ev
           /\ TWIN' = s2.ev
           /\ candidates' = s.cands
           /\ devices' = Append(devices, d)
           /\ observed' = observed \cup ObservedIn(d)
    /\ idx' = idx + 1
    /\ UNCHANGED <<DEVICES, clock, pc, result, ackEventKey, emitted, offline, acked,
                   dashVars, pollVars, pureVars,
                   toastVars, public_readings>>

PairNext ==
    \/ Tick
    \/ \E ack \in {""} \cup ConfiguredKeys : PairBegin(ack)
    \/ \E rows \in RowsCatalog, lastDataMs \in 0..clock : PairDevice(rows, lastDataMs)
    \/ EvalReturn

PairSpec == Init /\ [][PairNext]_vars

(***************************************************************************)
(* The dashboard around the engine: the poll, the five-second timer and    *)
(* the OK button of the global modal.  One engine call is one step here.   *)
(***************************************************************************)
getGlobalDevicesPayload ==
    [i \in 1..Len(DEVICES) |->
        IF DEVICES[i] \in DOMAIN GLOBAL_STATE THEN GLOBAL_STATE[DEVICES[i]]
        ELSE [deviceId |-> DEVICES[i], deviceName |-> DEVICES[i], rows |-> <<>>,
              lastDataMs |-> 0]]

\* The modal state [visible, key, shown] after showGlobalModal.
showGlobalModal(m) == [visible |-> TRUE, key |-> m.eventKey, shown |-> m.eventKey]

\* The call of AI.evaluateGlobal in runGlobalAI: what it leaves of the store
\* ev on the payload devs.
callEvaluateGlobal(ev, devs, ack) ==
    evaluateGlobal(ev, devs, clock, LANG_MODE, WarnMs, AlertMs, RepeatWindowMs,
                   PersistWindowMs, ModalSnoozeMs, ack)

\* The rest of runGlobalAI: the modal state it leaves, entered with the
\* modal state md, for the record res of the engine.
runGlobalAI(res, md) ==
    LET m == res.modal
    IN  IF m = NullNote THEN md
        ELSE IF ~md.visible THEN showGlobalModal(m)
        ELSE IF m.level = "critical" /\ m.eventKey # md.key THEN showGlobalModal(m)
        ELSE md

\* A fetch loop has refreshed some devices of GLOBAL_STATE and not yet all.
PartlyRefreshed == poll > 1 /\ poll <= Len(DEVICES)

\* The modal state the dashboard is in.
ModalState == [visible |-> MODAL_VISIBLE, key |-> MODAL_EVENT_KEY, shown |-> shown]

\* setInterval(() => runGlobalAI(), 5000)
GlobalAITimer ==
    /\ pc # "loop"
    /\ \E r \in {callEvaluateGlobal(EVENTS, getGlobalDevicesPayload, "")} :
       \E md \in {runGlobalAI(r.result, ModalState)} :
           /\ EVENTS' = r.ev
           /\ candidates' = r.candidates
           /\ result' = r.result
           /\ MODAL_VISIBLE' = md.visible
           /\ MODAL_EVENT_KEY' = md.key
           /\ shown' = md.shown
           /\ pc' = IF r.threw THEN "thrown" ELSE "return"
    /\ devices' = getGlobalDevicesPayload
    /\ ackEventKey' = ""
    /\ observed' = observed \cup ObservedBy(getGlobalDevicesPayload)
    /\ mixed' = PartlyRefreshed
    /\ UNCHANGED <<DEVICES, clock, idx, dev, emitted, offline, acked, TWIN,
                   GLOBAL_STATE, click, GLOBAL_POLL_INFLIGHT, poll, loops, pureVars,
                   toastVars, public_readings>>

\* pollGlobalOnce: the rows of each device are fetched and stored with the
\* time of the last one (nothing when there is none), then runGlobalAI().
pollGlobalOnce(rows, lastMs) ==
    /\ pc # "loop"
    /\ GLOBAL_STATE' =
           [d \in {DEVICES[i] : i \in 1..Len(DEVICES)} |->
               [deviceId |-> d, deviceName |-> d, rows |-> rows,
                lastDataMs |-> IF rows = <<>> THEN 0 ELSE lastMs]]
    /\ devices' = [i \in 1..Len(DEVICES) |-> GLOBAL_STATE'[DEVICES[i]]]
    /\ \E r \in {callEvaluateGlobal(EVENTS, devices', "")} :
       \E md \in {runGlobalAI(r.result, ModalState)} :
           /\ EVENTS' = r.ev
           /\ candidates' = r.candidates
           /\ result' = r.result
           /\ MODAL_VISIBLE' = md.visible
           /\ MODAL_EVENT_KEY' = md.key
           /\ shown' = md.shown
           /\ pc' = IF r.threw THEN "thrown" ELSE "return"
    /\ ackEventKey' = ""
    /\ observed' = observed \cup ObservedBy(devices')
    /\ mixed' = FALSE
    /\ UNCHANGED <<DEVICES, clock, idx, dev, emitted, offline, acked, TWIN, click,
                   GLOBAL_POLL_INFLIGHT, poll, loops, pureVars,
                   toastVars, public_readings>>

\* The OK button: hideGlobalModal(true).  The modal is hidden, the key is
\* relayed by runGlobalAI({ackEventKey}) if there is one, and then the key
\* is forgotten, also when that run has just shown the next modal; it is
\* kept when the run raised.
hideGlobalModal ==
    /\ pc # "loop"
    /\ MODAL_VISIBLE
    /\ click' = [done |-> TRUE, key |-> shown, ack |-> MODAL_EVENT_KEY]
    /\ IF MODAL_EVENT_KEY # ""
       THEN \E r \in {callEvaluateGlobal(EVENTS, getGlobalDevicesPayload,
                                          MODAL_EVENT_KEY)} :
            \E md \in {runGlobalAI(r.result, [visible |-> FALSE,
                                               key |-> MODAL_EVENT_KEY,
                                               shown |-> ""])} :
                /\ EVENTS' = r.ev
                /\ candidates' = r.candidates
                /\ result' = r.result
                /\ MODAL_VISIBLE' = md.visible
                /\ shown' = md.shown
                /\ devices' = getGlobalDevicesPayload
                /\ ackEventKey' = MODAL_EVENT_KEY
                /\ pc' = IF r.threw THEN "thrown" ELSE "return"
                /\ MODAL_EVENT_KEY' = IF r.threw THEN MODAL_EVENT_KEY ELSE ""
                /\ observed' = observed \cup ObservedBy(getGlobalDevicesPayload)
                /\ mixed' = PartlyRefreshed
       ELSE /\ MODAL_VISIBLE' = FALSE
            /\ shown' = ""
            /\ MODAL_EVENT_KEY' = ""
            /\ UNCHANGED <<EVENTS, candidates, result, devices, ackEventKey, pc,
                           observed, mixed>>
    /\ UNCHANGED <<DEVICES, clock, idx, dev, emitted, offline, acked, TWIN,
                   GLOBAL_STATE, GLOBAL_POLL_INFLIGHT, poll, loops, pureVars,
                   toastVars, public_readings>>

DashNext ==
    \/ Tick
    \/ GlobalAITimer
    \/ \E rows \in RowsCatalog, lastMs \in 1..clock : pollGlobalOnce(rows, lastMs)
    \/ hideGlobalModal

DashSpec == Init /\ [][DashNext]_vars

(***************************************************************************)
(* The engine watching a fleet of two devices, one of which may hand in a  *)
(* row whose timestamp cannot be converted.                                *)
(***************************************************************************)
\* A reading whose timestamp field is a map with a toDate entry.
TrapReading ==
    [timestamp |-> [t |-> "trap", n |-> 0], Temperature |-> Num(200),
     Humidity |-> Undef, Pressure |-> Undef, Light |-> Undef]

FleetCatalog == { <<>>, Readings(<<200, 200, 240>>), <<TrapReading>> }

FleetInit ==
    /\ DEVICES = <<"A", "B">>
    /\ EVENTS = [k \in {} |-> NewEvent]
    /\ clock = 1
    /\ pc = "init"
    /\ idx = 0
    /\ dev = NoDevice
    /\ candidates = <<>>
    /\ result = NullResult
    /\ ackEventKey = ""
    /\ emitted = [k \in EventKeys |-> 0]
    /\ offline = [d \in DeviceIds |-> [since |-> 0, again |-> FALSE]]
    /\ acked = [k \in EventKeys |-> [at |-> 0, fired |-> 0, live |-> FALSE]]
    /\ devices = <<>>
    /\ TWIN = [k \in {} |-> NewEvent]
    /\ GLOBAL_STATE = [d \in {} |-> NoDevice]
    /\ MODAL_VISIBLE = FALSE
    /\ MODAL_EVENT_KEY = ""
    /\ shown = ""
    /\ click = [done |-> FALSE, key |-> "", ack |-> ""]
    /\ observed = {}
    /\ GLOBAL_POLL_INFLIGHT = FALSE
    /\ poll = 0
    /\ loops = 0
    /\ mixed = FALSE
    /\ input = <<>>
    /\ output = <<>>
    /\ LAST_GLOBAL_TOAST_EVENT = ""
    /\ LAST_GLOBAL_TOAST_MS = 0
    /\ toasted = FALSE
    /\ public_readings = <<>>

\* A pass of the loop that raises: the offline detection of the device has
\* run, the exception leaves evaluateGlobal, and the candidates collected so
\* far go with it; the caller gets no record.
EvalThrow(rows, lastDataMs) ==
    /\ pc = "loop"
    /\ idx <= Len(DEVICES)
    /\ LET d == [deviceId |-> DEVICES[idx], deviceName |-> DEVICES[idx],
                 rows |-> rows, lastDataMs |-> lastDataMs]
           s == processOffline([ev |-> EVENTS, cands |-> candidates], d.deviceId,
                               d.deviceName, d.lastDataMs, clock, detectLang(LANG_MODE),
                               WarnMs, AlertMs, ModalSnoozeMs)
       IN  /\ processDeviceThrows(d)
           /\ dev' = d
           /\ EVENTS' = s.ev
           /\ devices' = Append(devices, d)
           /\ offline' = [offline EXCEPT ![d.deviceId] =
                             IF OfflineObserved(d, clock)
                             THEN IF @.since # 0 THEN @
                                  ELSE [since |-> clock, again |-> @.again]
                             ELSE IF @.since # 0 THEN [since |-> 0, again |-> TRUE]
                                  ELSE @]
           /\ acked' = [k \in EventKeys |->
                           IF k \in KeysOf(d.deviceId)
                           THEN [acked[k] EXCEPT
                                    !.live = @ /\ ConditionObserved(d, k, clock)]
                           ELSE acked[k]]
    /\ candidates' = <<>>
    /\ result' = NullResult
    /\ emitted' = [k \in EventKeys |-> 0]
    /\ pc' = "thrown"
    /\ observed' = observed \cup
           {k \in {offlineKey(DEVICES[idx])} : lastDataMs # 0 /\ clock - lastDataMs >= WarnMs}
    /\ UNCHANGED <<DEVICES, clock, idx, ackEventKey, TWIN, dashVars, pollVars, pureVars,
                   toastVars, public_readings>>

FleetNext ==
    \/ Tick
    \/ EvalBegin("")
    \/ \E rows \in FleetCatalog, lastDataMs \in {0, clock} : EvalDevice(rows, lastDataMs)
    \/ \E rows \in FleetCatalog, lastDataMs \in {0, clock} : EvalThrow(rows, lastDataMs)
    \/ EvalReturn

FleetSpec == FleetInit /\ [][FleetNext]_vars

(***************************************************************************)
(* The persisted-anomaly text, in real milliseconds: one pass of the       *)
(* anomaly branch over an occurrence first seen at firstSeenMs, evaluated  *)
(* elapsed milliseconds later under a persist window of persistWindowMs.   *)
(***************************************************************************)
MinuteMs == 60000

\* Elapsed times around the minute and the 30-minute boundaries.
PersistElapsed ==
    {0, 599999, 600000, 1799999, 1800000, 1800001, 1859999, 1860000, 2700001,
     7200000, 86400000}

PersistFirstSeen == {1, 59999, 60000, 123456, 1000000, 2000000}

\* The default window and a shorter one a caller may pass.
PersistWindows == {10 * MinuteMs, 30 * MinuteMs}

\* The store holding the occurrence, last seen when it was first seen.
PersistStore(firstSeenMs) ==
    anomalyKey("A", "Temperature") :>
        [NewEvent EXCEPT !.firstSeenMs = firstSeenMs, !.lastSeenMs = firstSeenMs,
                         !.lastFiredStage = 2]

PersistEval(firstSeenMs, elapsed, persistWindowMs) ==
    /\ input' = <<firstSeenMs, firstSeenMs + elapsed, persistWindowMs>>
    /\ output' = processMetric([ev |-> PersistStore(firstSeenMs), cands |-> <<>>],
                               "A", "A", Readings(<<200, 200, 240>>), "Temperature",
                               firstSeenMs + elapsed, detectLang(LANG_MODE),
                               10 * MinuteMs, persistWindowMs, 5 * MinuteMs).cands
    /\ UNCHANGED <<engineVars, TWIN, dashVars, observed, pollVars, toastVars, public_readings>>

PersistNext ==
    \E f \in PersistFirstSeen, e \in PersistElapsed, w \in PersistWindows :
        PersistEval(f, e, w)

PersistSpec == Init /\ [][PersistNext]_vars


(***************************************************************************)
(* series on its own: one call, on a list of up to MaxRows rows in any     *)
(* order, each with a timestamp that is earlier, later, missing,           *)
(* unparseable or not convertible, and a Temperature that is a number or   *)
(* missing.                                                                *)
(***************************************************************************)
MaxRows == 3

SeriesStamps ==
    { [t |-> "date", n |-> 10000], [t |-> "date", n |-> 20000], [t |-> "none", n |-> 0],
      [t |-> "bad", n |-> 0], [t |-> "trap", n |-> 0] }

SeriesRows ==
    { [timestamp |-> ts, Temperature |-> v, Humidity |-> Undef, Pressure |-> Undef,
       Light |-> Undef] : ts \in SeriesStamps, v \in {Num(200), Undef} }

SeriesInputs == UNION { [1..n -> SeriesRows] : n \in 0..MaxRows }

SeriesCall(rows) ==
    /\ pc = "init"
    /\ input' = rows
    /\ output' = IF seriesThrows(rows) THEN <<>> ELSE series(rows, "Temperature")
    /\ pc' = IF seriesThrows(rows) THEN "thrown" ELSE "return"
    /\ UNCHANGED <<DEVICES, EVENTS, clock, idx, dev, candidates, result, ackEventKey,
                   emitted, offline, acked, devices, TWIN, dashVars, observed, pollVars,
                   toastVars, public_readings>>

SeriesNext == \E rows \in SeriesInputs : SeriesCall(rows)

SeriesSpec == Init /\ [][SeriesNext]_vars


(***************************************************************************)
(* Polling step by step, for two devices.  pollGlobalOnce runs up to its   *)
(* first await, then one awaited getDocs resolves per step, then the loop  *)
(* ends with runGlobalAI() and the finally block.  Between the steps the   *)
(* timer of runGlobalAI, the OK button and further calls of pollGlobalOnce *)
(* (the poll interval) take their turn.                                    *)
(***************************************************************************)
\* What a fetch brings: nothing (an empty snapshot or a caught error), a
\* sudden step, or rows of which an earlier one has a timestamp that cannot
\* be converted.
PollCatalog == { <<>>, Readings(<<200, 200, 240>>), <<TrapReading, Reading(2, 200)>> }

\* Variant: the flag is cleared at the end of the try block.
inflightAfterPoll_NoFinally(threw) == threw

\* finally { GLOBAL_POLL_INFLIGHT = false; }
inflightAfterPoll(threw) == FALSE

\* pollGlobalOnce up to its first await: if (GLOBAL_POLL_INFLIGHT) return;
\* GLOBAL_POLL_INFLIGHT = true; and the first getDocs is under way.
PollBegin ==
    /\ pc # "loop"
    /\ IF GLOBAL_POLL_INFLIGHT
       THEN /\ pc' = "skipped"
            /\ UNCHANGED <<GLOBAL_POLL_INFLIGHT, poll, loops>>
       ELSE /\ pc' = "fetch"
            /\ GLOBAL_POLL_INFLIGHT' = TRUE
            /\ poll' = 1
            /\ loops' = loops + 1
    /\ UNCHANGED <<DEVICES, EVENTS, clock, idx, dev, candidates, result, ackEventKey,
                   emitted, offline, acked, devices, TWIN, dashVars, observed, mixed,
                   pureVars,
                   toastVars, public_readings>>

\* The getDocs of DEVICES[poll] resolves and GLOBAL_STATE gets its entry.
PollFetch(rows) ==
    /\ pc # "loop"
    /\ poll >= 1
    /\ poll <= Len(DEVICES)
    /\ GLOBAL_STATE' =
           (DEVICES[poll] :> [deviceId |-> DEVICES[poll], deviceName |-> DEVICES[poll],
                              rows |-> rows,
                              lastDataMs |-> IF rows = <<>> THEN 0 ELSE clock])
           @@ GLOBAL_STATE
    /\ poll' = poll + 1
    /\ pc' = "fetch"
    /\ UNCHANGED <<DEVICES, EVENTS, clock, idx, dev, candidates, result, ackEventKey,
                   emitted, offline, acked, devices, TWIN, MODAL_VISIBLE,
                   MODAL_EVENT_KEY, shown, click, observed, GLOBAL_POLL_INFLIGHT,
                   loops, mixed, pureVars,
                   toastVars, public_readings>>

\* The end of the loop: runGlobalAI(), and the finally block on the way out,
\* normal or not.
PollFinish ==
    /\ pc # "loop"
    /\ poll = Len(DEVICES) + 1
    /\ \E r \in {callEvaluateGlobal(EVENTS, getGlobalDevicesPayload, "")} :
       \E md \in {runGlobalAI(r.result, ModalState)} :
           /\ EVENTS' = r.ev
           /\ candidates' = r.candidates
           /\ result' = r.result
           /\ MODAL_VISIBLE' = md.visible
           /\ MODAL_EVENT_KEY' = md.key
           /\ shown' = md.shown
           /\ pc' = IF r.threw THEN "pollthrown" ELSE "polled"
           /\ GLOBAL_POLL_INFLIGHT' = inflightAfterPoll(r.threw)
    /\ devices' = getGlobalDevicesPayload
    /\ ackEventKey' = ""
    /\ observed' = observed \cup ObservedBy(getGlobalDevicesPayload)
    /\ mixed' = FALSE
    /\ poll' = 0
    /\ loops' = loops - 1
    /\ UNCHANGED <<DEVICES, clock, idx, dev, emitted, offline, acked, TWIN,
                   GLOBAL_STATE, click, pureVars,
                   toastVars, public_readings>>

PollNext ==
    \/ PollBegin
    \/ \E rows \in PollCatalog : PollFetch(rows)
    \/ PollFinish
    \/ GlobalAITimer
    \/ hideGlobalModal

PollSpec == FleetInit /\ [][PollNext]_vars


(***************************************************************************)
(* The current and the earlier engine side by side: EVENTS and result are  *)
(* those of the current engine, TWIN and output those of the earlier one,  *)
(* fed the same calls.  The rows are ones on which neither version can     *)
(* find an anomaly: none, two samples, three steady samples.               *)
(***************************************************************************)
(***************************************************************************)
(* The display side of runGlobalAI on its own: the engine is any source of *)
(* records, of the current version (a modal or nothing) or of the earlier  *)
(* one (also a toast).                                                     *)
(***************************************************************************)
\* const minGap = 6000, in the time unit of the clock.
ToastMinGapMs == 2

DisplayKeys == {"A:offline", "A:Temperature:anomaly"}

\* The records an engine returns: nothing, a modal or a critical modal, or a
\* toast, with or without an event key.
DisplayResults ==
    {NullResult}
    \cup {[toast |-> NullNote, modal |-> Note(l, NoText, k), lang |-> "en"] :
             l \in {"modal", "critical"}, k \in DisplayKeys}
    \cup {[toast |-> Note(l, NoText, k), modal |-> NullNote, lang |-> "en"] :
             l \in {"warn", "alert"}, k \in DisplayKeys \cup {""}}

\* The toast state the dashboard is in.
ToastState == [event |-> LAST_GLOBAL_TOAST_EVENT, ms |-> LAST_GLOBAL_TOAST_MS, toasted |-> toasted]

\* Variant: a toast is shown whether or not a modal is on screen.
globalToast_OverModal(res, md, last, now) ==
    IF res.modal # NullNote \/ res.toast = NullNote THEN [last EXCEPT !.toasted = FALSE]
    ELSE [event |-> res.toast.eventKey, ms |-> now, toasted |-> TRUE]

\* The toast part of runGlobalAI: the toast state it leaves, entered with
\* the modal state md and the toast state last at time now.
globalToast(res, md, last, now) ==
    IF res.modal # NullNote THEN [last EXCEPT !.toasted = FALSE]
    ELSE IF res.toast # NullNote /\ ~md.visible
    THEN LET eventKey == res.toast.eventKey
         IN  IF eventKey # "" /\ last.event = eventKey /\ now - last.ms < ToastMinGapMs
             THEN [last EXCEPT !.toasted = FALSE]
             ELSE [event |-> eventKey, ms |-> now, toasted |-> TRUE]
    ELSE [last EXCEPT !.toasted = FALSE]

\* runGlobalAI() by the timer or the poll, for the record res of the engine.
\* input and output keep the modal state before and after the call.
DisplayRun(res) ==
    /\ pc # "loop"
    /\ \E md \in {runGlobalAI(res, ModalState)} :
       \E t \in {globalToast(res, ModalState, ToastState, clock)} :
           /\ MODAL_VISIBLE' = md.visible
           /\ MODAL_EVENT_KEY' = md.key
           /\ shown' = md.shown
           /\ LAST_GLOBAL_TOAST_EVENT' = t.event
           /\ LAST_GLOBAL_TOAST_MS' = t.ms
           /\ toasted' = t.toasted
           /\ output' = <<md>>
    /\ input' = <<ModalState>>
    /\ result' = res
    /\ ackEventKey' = ""
    /\ pc' = "return"
    /\ UNCHANGED <<DEVICES, EVENTS, clock, idx, dev, candidates, emitted, offline,
                   acked, devices, TWIN, GLOBAL_STATE, click, observed, pollVars,
                   public_readings>>

\* hideGlobalModal(true), the acknowledged key being absent from the record
\* res of the run it makes.
DisplayHide(res) ==
    /\ pc # "loop"
    /\ MODAL_VISIBLE
    /\ click' = [done |-> TRUE, key |-> shown, ack |-> MODAL_EVENT_KEY]
    /\ IF MODAL_EVENT_KEY # ""
       THEN /\ res.modal.eventKey # MODAL_EVENT_KEY
            /\ res.toast.eventKey # MODAL_EVENT_KEY
            /\ \E e \in {[visible |-> FALSE, key |-> MODAL_EVENT_KEY, shown |-> ""]} :
               \E md \in {runGlobalAI(res, e)} :
               \E t \in {globalToast(res, e, ToastState, clock)} :
                   /\ MODAL_VISIBLE' = md.visible
                   /\ shown' = md.shown
                   /\ LAST_GLOBAL_TOAST_EVENT' = t.event
                   /\ LAST_GLOBAL_TOAST_MS' = t.ms
                   /\ toasted' = t.toasted
                   /\ input' = <<e>>
                   /\ output' = <<md>>
            /\ result' = res
            /\ ackEventKey' = MODAL_EVENT_KEY
       ELSE /\ res = NullResult
            /\ MODAL_VISIBLE' = FALSE
            /\ shown' = ""
            /\ UNCHANGED <<result, ackEventKey, pureVars, toastVars>>
    /\ MODAL_EVENT_KEY' = ""
    /\ pc' = "hidden"
    /\ UNCHANGED <<DEVICES, EVENTS, clock, idx, dev, candidates, emitted, offline,
                   acked, devices, TWIN, GLOBAL_STATE, observed, pollVars,
                   public_readings>>

DisplayNext ==
    \/ Tick
    \/ \E res \in DisplayResults : DisplayRun(res)
    \/ \E res \in DisplayResults : DisplayHide(res)

DisplaySpec == Init /\ [][DisplayNext]_vars

(***************************************************************************)
(* The ingestion endpoint (the Cloud Function ingestReading).  A request   *)
(* field is a JavaScript value: undefined, null, a number or a string.     *)
(***************************************************************************)
JsUndef == [t |-> "undef", n |-> 0, s |-> ""]
JsNull == [t |-> "null", n |-> 0, s |-> ""]
JsNum(n) == [t |-> "num", n |-> n, s |-> ""]
JsStr(s) == [t |-> "str", n |-> 0, s |-> s]

\* The documents the collection is let grow to.
MaxDocs == 1

\* DEVICE_API_KEY.value()
DEVICE_API_KEY == JsStr("key")

\* !v
JsFalsy(v) == v.t \in {"undef", "null"} \/ v = JsNum(0) \/ v = JsStr("")

\* String(v) of a string or a number
JsString(v) == IF v.t = "str" THEN v.s ELSE ToString(v.n)

\* Number(v): NaN for undefined and for text that is no numeral, 0 for null
\* and for the empty string.
JsNumber(v) ==
    IF v.t = "num" THEN [nan |-> FALSE, n |-> v.n]
    ELSE IF v.t = "null" \/ v = JsStr("") THEN [nan |-> FALSE, n |-> 0]
    ELSE [nan |-> TRUE, n |-> 0]

IngestMetrics == {"Temperature", "Humidity", "Pressure", "Light"}

\* const b = req.body || {};
bodyOf(req) ==
    IF req.hasBody THEN req.body
    ELSE [apiKey |-> JsUndef, deviceId |-> JsUndef, Temperature |-> JsUndef,
          Humidity |-> JsUndef, Pressure |-> JsUndef, Light |-> JsUndef]

\* The payload: the four signals through Number(), those that are NaN
\* deleted, and the server timestamp.
payloadOf(b) ==
    [k \in {m \in IngestMetrics : ~JsNumber(b[m]).nan} \cup {"timestamp"} |->
        IF k = "timestamp" THEN "serverTimestamp" ELSE ToString(JsNumber(b[k]).n)]

Response(status, text, ok) == [status |-> status, text |-> text, ok |-> ok]

\* Variant: the deviceId is checked before the API key.
ingestReading_DeviceIdFirst(req, fails, docs) ==
    LET b == bodyOf(req)
        deviceId == IF JsFalsy(b.deviceId) THEN "" ELSE JsString(b.deviceId)
    IN  IF req.method # "POST"
        THEN [res |-> Response(405, "POST only", "none"), docs |-> docs]
        ELSE IF deviceId = ""
        THEN [res |-> Response(400, "Missing deviceId", "none"), docs |-> docs]
        ELSE IF b.apiKey # DEVICE_API_KEY
        THEN [res |-> Response(403, "Forbidden", "none"), docs |-> docs]
        ELSE IF fails
        THEN [res |-> Response(500, "", "false"), docs |-> docs]
        ELSE [res |-> Response(200, "", "true"),
              docs |-> Append(docs, [deviceId |-> deviceId, data |-> payloadOf(b)])]

\* ingestReading: the response and the documents of the collection after
\* the request req, fails telling whether the add() is rejected.
ingestReading(req, fails, docs) ==
    LET b == bodyOf(req)
        deviceId == IF JsFalsy(b.deviceId) THEN "" ELSE JsString(b.deviceId)
    IN  IF req.method # "POST"
        THEN [res |-> Response(405, "POST only", "none"), docs |-> docs]
        ELSE IF b.apiKey # DEVICE_API_KEY
        THEN [res |-> Response(403, "Forbidden", "none"), docs |-> docs]
        ELSE IF deviceId = ""
        THEN [res |-> Response(400, "Missing deviceId", "none"), docs |-> docs]
        ELSE IF fails
        THEN [res |-> Response(500, "", "false"), docs |-> docs]
        ELSE [res |-> Response(200, "", "true"),
              docs |-> Append(docs, [deviceId |-> deviceId, data |-> payloadOf(b)])]

\* The bodies a client sends.
IngestBodies ==
    [apiKey : {JsUndef, JsStr("wrong"), DEVICE_API_KEY},
     deviceId : {JsUndef, JsStr(""), JsStr("A"), JsNum(7)},
     Temperature : {JsUndef, JsNum(215), JsNull},
     Humidity : {JsUndef}, Pressure : {JsUndef}, Light : {JsUndef}]

IngestRequests ==
    {[method |-> m, hasBody |-> TRUE, body |-> b] : m \in {"GET", "POST"}, b \in IngestBodies}
    \cup {[method |-> m, hasBody |-> FALSE, body |-> bodyOf([hasBody |-> FALSE])] : m \in {"GET", "POST"}}

\* One request is served; input keeps the request, whether its add() was
\* rejected and the documents before it, output the response.
IngestRequest(req, fails) ==
    /\ pc # "loop"
    /\ Len(public_readings) < MaxDocs
    /\ \E r \in {ingestReading(req, fails, public_readings)} :
           /\ public_readings' = r.docs
           /\ output' = <<r.res>>
    /\ input' = <<req, fails, public_readings>>
    /\ pc' = "return"
    /\ UNCHANGED <<DEVICES, EVENTS, clock, idx, dev, candidates, result, ackEventKey,
                   emitted, offline, acked, devices, TWIN, dashVars, observed, pollVars,
                   toastVars>>

IngestNext == \E req \in IngestRequests, fails \in BOOLEAN : IngestRequest(req, fails)

IngestSpec == Init /\ [][IngestNext]_vars

VersionCatalog == { <<>>, Readings(<<200, 240>>), Readings(<<200, 200, 200>>) }

VersionEval(ack, rows, lastDataMs) ==
    /\ pc # "loop"
    /\ LET d == [deviceId |-> DEVICES[1], deviceName |-> DEVICES[1], rows |-> rows,
                 lastDataMs |-> lastDataMs]
       IN  /\ dev' = d
           /\ devices' = <<d>>
           /\ observed' = observed \cup ObservedIn(d)
           /\ \E r \in {callEvaluateGlobal(EVENTS, <<d>>, ack)} :
                 /\ EVENTS' = r.ev
                 /\ candidates' = r.candidates
                 /\ result' = r.result
           /\ \E o \in {OldEvaluateGlobal(TWIN, <<d>>, clock, LANG_MODE, WarnMs, AlertMs,
                                          RepeatWindowMs, PersistWindowMs, ModalSnoozeMs,
                                          ack)} :
                 /\ TWIN' = o.ev
                 /\ output' = <<o.result>>
    /\ ackEventKey' = ack
    /\ pc' = "return"
    /\ UNCHANGED <<DEVICES, clock, idx, emitted, offline, acked, dashVars, pollVars, input,
                   toastVars, public_readings>>

VersionNext ==
    \/ Tick
    \/ \E ack \in {""} \cup ConfiguredKeys, rows \in VersionCatalog, lastDataMs \in 0..clock :
           VersionEval(ack, rows, lastDataMs)

VersionSpec == Init /\ [][VersionNext]_vars


(***************************************************************************)
(* The engine watching a device that keeps uploading: every snapshot has   *)
(* the current time as its last-data time, and nothing is acknowledged.    *)
(***************************************************************************)
SignalNext ==
    \/ Tick
    \/ EvalBegin("")
    \/ \E rows \in SignalCatalog : EvalDevice(rows, clock)
    \/ EvalReturn

SignalSpec == Init /\ [][SignalNext]_vars

(***************************************************************************)
(* Vocabulary of the properties                                            *)
(***************************************************************************)
\* An evaluation has just returned.
Returned == pc = "return"

\* The loop has just processed the snapshot dev.
Processed == pc = "loop" /\ dev # NoDevice

IsNull(note) == note = NullNote

\* The event key the returned record carries, "" if it carries none.
NotifiedKey ==
    IF ~IsNull(result.modal) THEN result.modal.eventKey
    ELSE IF ~IsNull(result.toast) THEN result.toast.eventKey
    ELSE ""

CandidateIndex == 1..Len(candidates)

\* The candidates the evaluation holds for eventKey.
CandidatesFor(eventKey) == {j \in CandidateIndex : candidates[j].eventKey = eventKey}

MaxStage(j) == \A i \in CandidateIndex : candidates[i].stage <= candidates[j].stage

\* eventKey was acknowledged less than the snooze duration ago.
InSnooze(eventKey) ==
    acked[eventKey].at # 0 /\ clock - acked[eventKey].at < ModalSnoozeMs

\* eventKey was acknowledged and its snooze window has run out.
SnoozeOver(eventKey) ==
    acked[eventKey].at # 0 /\ clock - acked[eventKey].at >= ModalSnoozeMs

(***************************************************************************)
(* C1..C10                                                                 *)
(***************************************************************************)
\* C1: a returned record never has both toast and modal; both are null exactly
\* when the evaluation collected no candidate, so with a candidate exactly one
\* of them is set.
C1_OneNotification ==
    Returned =>
        /\ IsNull(result.toast) \/ IsNull(result.modal)
        /\ (IsNull(result.toast) /\ IsNull(result.modal)) <=> (candidates = <<>>)

C1_Witness ==
    /\ Returned
    /\ Len(candidates) >= 2
    /\ ~IsNull(result.modal)
    /\ IsNull(result.toast)

\* C2: the returned notification carries the key of a candidate whose stage is
\* the highest of the evaluation.
C2_TopStageWins ==
    (Returned /\ candidates # <<>>) =>
        \E j \in CandidateIndex : candidates[j].eventKey = NotifiedKey /\ MaxStage(j)

C2_Witness ==
    /\ Returned
    /\ Len(candidates) >= 2
    /\ emitted[offlineKey("A")] = 1
    /\ emitted[anomalyKey("A", "Temperature")] >= 2
    /\ NotifiedKey = anomalyKey("A", "Temperature")

\* C3 (as claimed): among the candidates of the highest stage the returned one
\* has the earliest seenSinceMs.
C3_OldestFirst ==
    (Returned /\ candidates # <<>>) =>
        \E j \in CandidateIndex :
            /\ candidates[j].eventKey = NotifiedKey
            /\ MaxStage(j)
            /\ \A i \in CandidateIndex :
                   candidates[i].stage = candidates[j].stage
                       => candidates[j].seenSinceMs <= candidates[i].seenSinceMs

\* C4 (as claimed): the stage of the top candidate picks the channel: 3 a critical
\* modal, 2 a modal, 1 a toast with no modal.
C4_ChannelByStage ==
    (Returned /\ candidates # <<>>) =>
        LET top == candidates[1]
        IN  /\ top.stage = 3 => (result.modal.level = "critical" /\ IsNull(result.toast))
            /\ top.stage = 2 => (result.modal.level = "modal" /\ IsNull(result.toast))
            /\ top.stage = 1 => (~IsNull(result.toast) /\ IsNull(result.modal))

\* C5: for a device with a last-data time whose offline event is not snoozed,
\* age < warn gives no offline candidate, warn <= age < alert exactly one of
\* stage 1, age >= alert exactly one of stage 2.
C5_OfflineClasses ==
    (Processed /\ HasLastData(dev) /\ ~InSnooze(offlineKey(dev.deviceId))) =>
        LET age == clock - dev.lastDataMs
            offs == CandidatesFor(offlineKey(dev.deviceId))
        IN  /\ age < WarnMs => offs = {}
            /\ (WarnMs <= age /\ age < AlertMs) =>
                   (Cardinality(offs) = 1 /\ \A j \in offs : candidates[j].stage = 1)
            /\ age >= AlertMs =>
                   (Cardinality(offs) = 1 /\ \A j \in offs : candidates[j].stage = 2)

C5_Witness ==
    /\ Processed
    /\ HasLastData(dev)
    /\ ~InSnooze(offlineKey(dev.deviceId))
    /\ clock - dev.lastDataMs = AlertMs
    /\ emitted[offlineKey(dev.deviceId)] = 2

\* C6: a device without a last-data time is offline in every evaluation: its
\* event is marked seen now, keeps the first-seen time of its offline run, and
\* unless snoozed yields one offline candidate of stage 2.
C6_NoDataIsOffline ==
    (Processed /\ ~HasLastData(dev)) =>
        LET k == offlineKey(dev.deviceId)
        IN  /\ k \in DOMAIN EVENTS
            /\ EVENTS[k].lastSeenMs = clock
            /\ EVENTS[k].firstSeenMs # 0
            /\ EVENTS[k].firstSeenMs = offline[dev.deviceId].since
            /\ ~InSnooze(k) =>
                   /\ Cardinality(CandidatesFor(k)) = 1
                   /\ \A j \in CandidatesFor(k) : candidates[j].stage = 2

C6_Witness ==
    /\ Processed
    /\ ~HasLastData(dev)
    /\ offlineKey(dev.deviceId) \in DOMAIN EVENTS
    /\ EVENTS[offlineKey(dev.deviceId)].firstSeenMs < clock
    /\ emitted[offlineKey(dev.deviceId)] = 2

\* C7: after a recovery the first-seen time of the offline event is the time
\* of the first evaluation of the new offline run, and an evaluation that sees
\* the device online leaves the event reset.
C7_RecoveryResets ==
    /\ \A d \in DeviceIds :
           (offline[d].again /\ offline[d].since # 0) =>
               /\ offlineKey(d) \in DOMAIN EVENTS
               /\ EVENTS[offlineKey(d)].firstSeenMs = offline[d].since
    /\ (Processed /\ ~OfflineObserved(dev, clock)
            /\ offlineKey(dev.deviceId) \in DOMAIN EVENTS) =>
           LET st == EVENTS[offlineKey(dev.deviceId)]
           IN  st.firstSeenMs = 0 /\ st.lastSeenMs = 0 /\ st.lastFiredStage = 0

C7_Witness ==
    /\ Processed
    /\ offline["A"].again
    /\ offline["A"].since > 1
    /\ offline["A"].since < clock
    /\ EVENTS[offlineKey("A")].firstSeenMs = offline["A"].since

\* C8 (as claimed): a key with a candidate in two consecutive evaluations, its
\* firstSeenMs non-null throughout, never gets a lower stage in the later one.
C8_StageNeverDrops ==
    [][\A k \in EventKeys :
          (/\ emitted[k] > 0
           /\ emitted'[k] > 0
           /\ k \in DOMAIN EVENTS
           /\ EVENTS[k].firstSeenMs # 0
           /\ EVENTS'[k].firstSeenMs = EVENTS[k].firstSeenMs)
              => emitted'[k] >= emitted[k]]_vars

\* C9: less than the snooze duration after an acknowledgement of a key no
\* candidate is produced for it and no result carries it; from the snooze
\* duration on, a pass that sees its condition active produces its candidate.
C9_SnoozeSuppresses ==
    /\ Processed =>
           \A k \in KeysOf(dev.deviceId) :
               /\ InSnooze(k) => emitted[k] = 0
               /\ (SnoozeOver(k) /\ ConditionObserved(dev, k, clock)) => emitted[k] > 0
    /\ Returned =>
           \A k \in EventKeys : InSnooze(k) => (NotifiedKey # k /\ CandidatesFor(k) = {})

C9_Witness ==
    /\ Processed
    /\ \E k \in KeysOf(dev.deviceId) :
           /\ InSnooze(k)
           /\ ConditionObserved(dev, k, clock)
           /\ emitted[k] = 0

\* C10: a key acknowledged while active and seen active in every pass since
\* gets a candidate again once the snooze window is over, of a stage not below
\* the lastFiredStage it had before the acknowledgement.
C10_SnoozeKeepsStage ==
    Processed =>
        \A k \in KeysOf(dev.deviceId) :
            (SnoozeOver(k) /\ acked[k].live) =>
                (emitted[k] > 0 /\ emitted[k] >= acked[k].fired)

C10_Witness ==
    /\ Processed
    /\ \E k \in KeysOf(dev.deviceId) :
           /\ SnoozeOver(k)
           /\ acked[k].live
           /\ acked[k].fired = 3
           /\ emitted[k] = 3

(***************************************************************************)
(* C11..C20                                                                *)
(***************************************************************************)
\* The snapshots of the evaluation that hold the condition of eventKey active.
ActiveIn(eventKey) ==
    {i \in 1..Len(devices) : ConditionObserved(devices[i], eventKey, clock)}

\* C11: an evaluation called with ackEventKey = K (the snooze duration being
\* positive) collects no candidate for K and returns no notification for K,
\* whatever its snapshots show.
C11_AckBeforeDetection ==
    (Returned /\ ackEventKey # "") =>
        /\ NotifiedKey # ackEventKey
        /\ CandidatesFor(ackEventKey) = {}

C11_Witness ==
    /\ Returned
    /\ ackEventKey # ""
    /\ ActiveIn(ackEventKey) # {}
    /\ NotifiedKey # ""
    /\ NotifiedKey # ackEventKey

\* The bookkeeping of eventKey in a store: <<firstSeenMs, lastSeenMs>>, both
\* null for a key the store does not hold.
Seen(ev, eventKey) ==
    IF eventKey \in DOMAIN ev THEN <<ev[eventKey].firstSeenMs, ev[eventKey].lastSeenMs>>
    ELSE <<0, 0>>

\* C12: an engine given any acknowledgements and one given none, fed the same
\* snapshots and times, agree on firstSeenMs and lastSeenMs of every event key
\* after every evaluation.
C12_AckMutesDisplayOnly ==
    Returned => \A k \in EventKeys : Seen(EVENTS, k) = Seen(TWIN, k)

C12_Witness ==
    /\ Returned
    /\ \E k \in EventKeys :
           /\ k \in DOMAIN EVENTS
           /\ k \in DOMAIN TWIN
           /\ isSnoozed(EVENTS[k], clock, ModalSnoozeMs)
           /\ CandidatesFor(k) = {}
           /\ ~isSnoozed(TWIN[k], clock, ModalSnoozeMs)
           /\ ActiveIn(k) # {}
           /\ EVENTS[k].lastSeenMs = clock
           /\ EVENTS[k].firstSeenMs < clock
           /\ EVENTS[k].firstSeenMs # 0

\* C13: when an evaluation without acknowledgement has returned, a second one
\* on the same snapshots at the same time, again without acknowledgement,
\* returns an equal record.
C13_Idempotent ==
    (Returned /\ ackEventKey = "") => callEvaluateGlobal(EVENTS, devices, "").result = result

C13_Witness ==
    /\ Returned
    /\ ackEventKey = ""
    /\ Len(candidates) >= 2
    /\ NotifiedKey # ""
    /\ EVENTS[NotifiedKey].firstSeenMs = clock
    /\ callEvaluateGlobal(EVENTS, devices, "").result = result

\* The magnitude of the change between the last two samples (none below two).
StepMagnitude(pts) ==
    LET n == Len(pts)
    IN  IF n < 2 THEN -1 ELSE Abs(pts[n].v - pts[n - 1].v)

\* The magnitude of the change between the earliest and the latest sample of
\* the trailing window (none below two samples in it).
WindowMagnitude(pts, windowMs) ==
    LET n == Len(pts)
        inside == {i \in 1..n : pts[i].ms >= pts[n].ms - windowMs /\ pts[i].ms <= pts[n].ms}
        first == CHOOSE i \in inside : \A j \in inside : i <= j
        last == CHOOSE i \in inside : \A j \in inside : j <= i
    IN  IF n < 2 \/ Cardinality(inside) < 2 THEN -1
        ELSE Abs(pts[last].v - pts[first].v)

\* At least one of the three delta magnitudes meets its threshold.
AnyDeltaMeets(pts, th) ==
    \/ StepMagnitude(pts) >= th.spike
    \/ WindowMagnitude(pts, WIN_5M) >= th.slow5m
    \/ WindowMagnitude(pts, WIN_10M) >= th.slow10m

\* The same, each delta counted only on enough samples.
AnyDeltaMeetsOnEnough(pts, th) ==
    /\ Len(pts) >= MinStepPoints
    /\ \/ StepMagnitude(pts) >= th.spike
       \/ /\ Len(pts) >= MinWindowPoints
          /\ \/ WindowMagnitude(pts, WIN_5M) >= th.slow5m
             \/ WindowMagnitude(pts, WIN_10M) >= th.slow10m

C15_AnomalyStaging ==
    Processed =>
        LET k == anomalyKey(dev.deviceId, "Temperature")
        IN  \A j \in CandidatesFor(k) :
                /\ k \in DOMAIN EVENTS
                /\ EVENTS[k].firstSeenMs # 0
                /\ candidates[j].stage # 1
                /\ clock - EVENTS[k].firstSeenMs >= PersistWindowMs
                       => candidates[j].stage = 3
                /\ clock - EVENTS[k].firstSeenMs < PersistWindowMs
                       => candidates[j].stage = 2
                /\ EVENTS[k].firstSeenMs = clock => candidates[j].stage = 2

C15_Witness ==
    /\ Processed
    /\ \E j \in CandidatesFor(anomalyKey(dev.deviceId, "Temperature")) :
           /\ candidates[j].stage = 3
           /\ candidates[j].level = "critical"
           /\ clock - candidates[j].seenSinceMs = PersistWindowMs

\* The key a returned record carries, "" if it carries none.
KeyOf(res) ==
    IF ~IsNull(res.modal) THEN res.modal.eventKey
    ELSE IF ~IsNull(res.toast) THEN res.toast.eventKey
    ELSE ""

\* The text a returned record carries.
TextOf(res) ==
    IF ~IsNull(res.modal) THEN res.modal.text
    ELSE IF ~IsNull(res.toast) THEN res.toast.text
    ELSE NoText

\* C16: when an evaluation has returned the notification of key K, the next
\* one, on the same snapshots at the same time with ackEventKey = K, returns
\* the candidate that ranked second, or nothing if K was the only candidate.
C16_HandOver ==
    (Returned /\ candidates # <<>>) =>
        LET next == callEvaluateGlobal(EVENTS, devices, NotifiedKey).result
        IN  IF Len(candidates) = 1
            THEN IsNull(next.modal) /\ IsNull(next.toast)
            ELSE /\ KeyOf(next) = candidates[2].eventKey
                 /\ TextOf(next) = candidates[2].text

C16_Witness ==
    /\ Returned
    /\ Len(candidates) >= 2
    /\ candidates[1].stage = candidates[2].stage
    /\ NotifiedKey = candidates[1].eventKey
    /\ KeyOf(callEvaluateGlobal(EVENTS, devices, NotifiedKey).result) = candidates[2].eventKey

\* The evaluation has ended, with or without a record for its caller.
Ended == pc = "return" \/ pc = "thrown"

\* A snapshot that is processed without a fault and shows a condition active.
Owed(d) ==
    /\ ~processDeviceThrows(d)
    /\ \E k \in KeysOf(d.deviceId) : ConditionObserved(d, k, clock)

\* C17 (as claimed): every evaluation completes, having processed every
\* device, and returns a notification when a device that raised no fault has
\* a condition active (nothing is acknowledged here).
C17_FaultIsolation ==
    Ended =>
        /\ pc = "return"
        /\ Len(devices) = Len(DEVICES)
        /\ (\E i \in 1..Len(devices) : Owed(devices[i])) => NotifiedKey # ""

\* C18 (as claimed): an OK click on a visible global modal calls the engine
\* with ackEventKey equal to the key of the modal that was on screen.
C18_AckRelayed ==
    click.done => (click.key # "" /\ click.ack = click.key)

\* The state of eventKey in a store, a key it does not hold being as new.
StateOf(ev, eventKey) == IF eventKey \in DOMAIN ev THEN ev[eventKey] ELSE NewEvent

\* C19: in every step lastFiredStage of a key does not decrease when its
\* firstSeenMs is non-null before and after, and it goes back to 0 only in a
\* step that leaves firstSeenMs null.
C19_FiredStageKept ==
    [][\A k \in EventKeys :
          LET a == StateOf(EVENTS, k)
              b == StateOf(EVENTS', k)
          IN  /\ (a.firstSeenMs # 0 /\ b.firstSeenMs # 0)
                     => b.lastFiredStage >= a.lastFiredStage
              /\ (a.lastFiredStage > 0 /\ b.lastFiredStage = 0)
                     => b.firstSeenMs = 0]_vars

C19_Witness ==
    /\ Processed
    /\ LET k == anomalyKey(dev.deviceId, "Temperature")
       IN  /\ k \in DOMAIN EVENTS
           /\ ~AnomalyObserved(dev, "Temperature")
           /\ Len(series(dev.rows, "Temperature")) >= MinStepPoints
           /\ EVENTS[k].firstSeenMs # 0
           /\ EVENTS[k].lastSeenMs < clock
           /\ EVENTS[k].lastFiredStage = 3

\* C20 (as claimed): after a pass that produced a candidate of stage s for a
\* key, offline or anomaly, lastFiredStage of the key is at least s.
C20_FiredStageRecorded ==
    Processed =>
        \A k \in KeysOf(dev.deviceId) :
            emitted[k] > 0 =>
                (k \in DOMAIN EVENTS /\ EVENTS[k].lastFiredStage >= emitted[k])

\* C21: a step that applies an acknowledgement of key K at clock sets lastAckMs
\* of K to clock, leaves firstSeenMs, lastSeenMs, lastFiredStage (and every
\* other field) of K as they were, and leaves every other key's state as it was.
C21_AckFrame ==
    [][(pc # "loop" /\ pc' = "loop" /\ ackEventKey' # "")
          => /\ StateOf(EVENTS', ackEventKey') =
                    [StateOf(EVENTS, ackEventKey') EXCEPT !.lastAckMs = clock]
             /\ \A k \in EventKeys \ {ackEventKey'} :
                    /\ (k \in DOMAIN EVENTS') = (k \in DOMAIN EVENTS)
                    /\ StateOf(EVENTS', k) = StateOf(EVENTS, k)]_vars

C21_Witness ==
    /\ pc = "loop"
    /\ idx = 1
    /\ ackEventKey # ""
    /\ ackEventKey \in DOMAIN EVENTS
    /\ EVENTS[ackEventKey].lastAckMs = clock
    /\ EVENTS[ackEventKey].firstSeenMs # 0
    /\ EVENTS[ackEventKey].firstSeenMs < clock
    /\ EVENTS[ackEventKey].lastFiredStage >= 2
    /\ \E k \in DOMAIN EVENTS \ {ackEventKey} : EVENTS[k].firstSeenMs # 0

\* C22: firstSeenMs of a key is set once per occurrence.  In every step, a
\* firstSeenMs that is non-null before and after is the same; one that goes
\* from null to non-null becomes clock, in a pass that sees the key's condition
\* active; and a pass that sees the condition active while firstSeenMs is null
\* sets it to clock.
C22_FirstSeenOnce ==
    [][\A k \in EventKeys :
          LET a == StateOf(EVENTS, k)
              b == StateOf(EVENTS', k)
              pass == pc = "loop" /\ idx' = idx + 1 /\ k \in KeysOf(dev'.deviceId)
          IN  /\ (a.firstSeenMs # 0 /\ b.firstSeenMs # 0)
                     => b.firstSeenMs = a.firstSeenMs
              /\ (a.firstSeenMs = 0 /\ b.firstSeenMs # 0)
                     => /\ b.firstSeenMs = clock
                        /\ pass
                        /\ ConditionObserved(dev', k, clock)
              /\ (pass /\ a.firstSeenMs = 0 /\ ConditionObserved(dev', k, clock))
                     => b.firstSeenMs = clock]_vars

C22_Witness ==
    /\ Processed
    /\ \E k \in KeysOf(dev.deviceId) \cap DOMAIN EVENTS :
          /\ ConditionObserved(dev, k, clock)
          /\ EVENTS[k].firstSeenMs # 0
          /\ EVENTS[k].firstSeenMs < clock
          /\ EVENTS[k].lastSeenMs = clock
          /\ EVENTS[k].lastAckMs # 0

\* C23: a pass that evaluates an anomaly key (last-data time present, at least
\* MinStepPoints points) and finds it inactive resets firstSeenMs, lastSeenMs
\* and lastFiredStage of the key when clock - lastSeenMs > RepeatWindowMs, and
\* otherwise leaves the key's state as it was; it never creates the entry.
C23_QuietClear ==
    [][(pc = "loop" /\ idx' = idx + 1 /\ HasLastData(dev')
           /\ Len(series(dev'.rows, "Temperature")) >= MinStepPoints
           /\ ~AnomalyObserved(dev', "Temperature"))
          => LET k == anomalyKey(dev'.deviceId, "Temperature")
                 a == StateOf(EVENTS, k)
                 b == StateOf(EVENTS', k)
             IN  /\ (k \in DOMAIN EVENTS') = (k \in DOMAIN EVENTS)
                 /\ (clock - a.lastSeenMs > RepeatWindowMs)
                        => b = [a EXCEPT !.firstSeenMs = 0, !.lastSeenMs = 0,
                                         !.lastFiredStage = 0]
                 /\ ~(clock - a.lastSeenMs > RepeatWindowMs) => b = a]_vars

C23_Witness ==
    /\ Processed
    /\ HasLastData(dev)
    /\ Len(series(dev.rows, "Temperature")) >= MinStepPoints
    /\ ~AnomalyObserved(dev, "Temperature")
    /\ LET k == anomalyKey(dev.deviceId, "Temperature")
       IN  /\ k \in DOMAIN EVENTS
           /\ EVENTS[k].firstSeenMs # 0
           /\ EVENTS[k].lastSeenMs # 0
           /\ clock - EVENTS[k].lastSeenMs = RepeatWindowMs
           /\ EVENTS[k].lastFiredStage >= 2

\* C24 (as claimed): in a pass over a device with a last-data time, a signal
\* with fewer than MinStepPoints points yields no candidate and is handled as
\* an inactive one, its existing event reset once clock - lastSeenMs exceeds
\* RepeatWindowMs; with fewer than MinWindowPoints points only the last-step
\* magnitude makes it active.
C24_SparseAsInactive ==
    [][(pc = "loop" /\ idx' = idx + 1 /\ HasLastData(dev'))
          => LET k == anomalyKey(dev'.deviceId, "Temperature")
                 pts == series(dev'.rows, "Temperature")
                 a == StateOf(EVENTS, k)
                 b == StateOf(EVENTS', k)
             IN  /\ Len(pts) < MinStepPoints
                        => /\ StageOf(candidates', k) = 0
                           /\ (k \in DOMAIN EVENTS /\ clock - a.lastSeenMs > RepeatWindowMs)
                                  => b = [a EXCEPT !.firstSeenMs = 0, !.lastSeenMs = 0,
                                                   !.lastFiredStage = 0]
                 /\ Len(pts) < MinWindowPoints
                        => (StageOf(candidates', k) > 0
                               => StepMagnitude(pts) >= TH.Temperature.spike)]_vars

\* C25: the minutes figure of a stage-3 text is the whole minutes elapsed
\* since firstSeenMs, floor((nowMs - firstSeenMs) / 60000), shown as 30 when
\* that is below 30; from 30 minutes elapsed on it never exceeds the elapsed
\* time.
C25_PersistMinutes ==
    Len(input) = 3 =>
        \A j \in 1..Len(output) :
            output[j].stage = 3 =>
                LET elapsed == input[2] - input[1]
                    whole == CHOOSE m \in 0..(elapsed \div MinuteMs + 1) :
                                 m * MinuteMs <= elapsed /\ elapsed < (m + 1) * MinuteMs
                    figure == output[j].text.nums[1]
                IN  /\ output[j].text.key = "MODAL_PERSIST:WHAT_TEMP"
                    /\ figure = (IF whole < 30 THEN 30 ELSE whole)
                    /\ elapsed >= 30 * MinuteMs => figure * MinuteMs <= elapsed

C25_Witness ==
    /\ Len(input) = 3
    /\ input[2] - input[1] = 1799999
    /\ Len(output) = 1
    /\ output[1].stage = 3
    /\ output[1].text.nums = <<30>>

\* C26: the delta reported in a stage-2 anomaly text is the last-step delta
\* when that meets the spike threshold, else the 5-minute delta when that meets
\* its threshold, else the 10-minute delta, which then meets its threshold: the
\* reported delta is always one that met its threshold.
C26_DeltaPriority ==
    (Processed /\ HasLastData(dev)) =>
        LET k == anomalyKey(dev.deviceId, "Temperature")
            pts == series(dev.rows, "Temperature")
            th == TH.Temperature
            enough == Len(pts) >= MinWindowPoints
            stepMet == StepMagnitude(pts) >= th.spike
            fiveMet == enough /\ WindowMagnitude(pts, WIN_5M) >= th.slow5m
            tenMet == enough /\ WindowMagnitude(pts, WIN_10M) >= th.slow10m
        IN  \A j \in CandidatesFor(k) :
                candidates[j].stage = 2 =>
                    LET reported == candidates[j].text.delta.mag
                    IN  /\ stepMet => reported = StepMagnitude(pts)
                        /\ (~stepMet /\ fiveMet) => reported = WindowMagnitude(pts, WIN_5M)
                        /\ (~stepMet /\ ~fiveMet)
                               => (tenMet /\ reported = WindowMagnitude(pts, WIN_10M))

\* All three deltas meet their thresholds with different magnitudes, and the
\* text reports the last step.
C26_Witness ==
    /\ Processed
    /\ HasLastData(dev)
    /\ LET k == anomalyKey(dev.deviceId, "Temperature")
           pts == series(dev.rows, "Temperature")
       IN  /\ Len(pts) >= MinWindowPoints
           /\ StepMagnitude(pts) >= TH.Temperature.spike
           /\ WindowMagnitude(pts, WIN_5M) > StepMagnitude(pts)
           /\ WindowMagnitude(pts, WIN_10M) > WindowMagnitude(pts, WIN_5M)
           /\ \E j \in CandidatesFor(k) :
                 /\ candidates[j].stage = 2
                 /\ candidates[j].text.delta.mag = StepMagnitude(pts)

\* C27 (as claimed): after every step each key of the store is one whose
\* condition some pass has seen active, and no step removes a key from the
\* store.
C27_StoreLifecycle ==
    [][/\ \A k \in DOMAIN EVENTS' : k \in observed'
       /\ DOMAIN EVENTS \subseteq DOMAIN EVENTS']_vars

\* A row that has a number for the signal and a timestamp that resolves.
ValidRow(r, key) == IsNum(r[key]) /\ r.timestamp.t \in {"date", "ms", "sec"}

\* C28 (as claimed): a call of series does not fail, its result holds exactly
\* the rows of the input that have a number for the signal and a resolvable
\* timestamp, and the points are in ascending order of time whatever the
\* order of the rows.
C28_SeriesValidOrdered ==
    pc \in {"return", "thrown"} =>
        LET valid == {i \in 1..Len(input) : ValidRow(input[i], "Temperature")}
        IN  /\ pc = "return"
            /\ Len(output) = Cardinality(valid)
            /\ \A i \in valid :
                   \E j \in 1..Len(output) :
                       /\ output[j].ms = input[i].timestamp.n
                       /\ output[j].v = input[i].Temperature.n
            /\ \A i, j \in 1..Len(output) : i < j => output[i].ms <= output[j].ms

\* C29: at most one fetch loop is in progress, and GLOBAL_POLL_INFLIGHT is set
\* exactly while one is; a call of pollGlobalOnce that arrives while a loop is
\* in progress leaves GLOBAL_STATE, the engine and the modal untouched; and the
\* step that ends a loop, normally or with an exception, leaves the guard
\* released.
C29_PollGuard ==
    [][/\ loops' <= 1
       /\ GLOBAL_POLL_INFLIGHT' <=> loops' = 1
       /\ (pc' = "skipped" /\ pc # "skipped")
              => /\ GLOBAL_POLL_INFLIGHT
                 /\ UNCHANGED <<GLOBAL_STATE, EVENTS, candidates, result, devices,
                                MODAL_VISIBLE, MODAL_EVENT_KEY, shown, poll, loops>>
       /\ (poll # 0 /\ poll' = 0) => ~GLOBAL_POLL_INFLIGHT']_vars

\* A fetch loop has ended with an exception and the guard is released.
C29_Witness ==
    /\ pc = "pollthrown"
    /\ ~GLOBAL_POLL_INFLIGHT
    /\ loops = 0
    /\ poll = 0
    /\ \E d \in DOMAIN GLOBAL_STATE : seriesThrows(GLOBAL_STATE[d].rows)

\* C30 (as claimed): no call of evaluateGlobal is made on a GLOBAL_STATE of
\* which the fetch loop in progress has refreshed some devices and not yet all.
C30_NoInterleaving == ~mixed

\* C31 (as claimed): after every evaluation on rows in which neither version
\* can find an anomaly, the current engine and the earlier one have returned
\* the same record (toast, modal, level, text, eventKey) and hold the same
\* state for every offline key.
C31_OldFeaturesKept ==
    (pc = "return" /\ Len(output) = 1) =>
        /\ result = output[1]
        /\ \A d \in DeviceIds :
               StateOf(EVENTS, offlineKey(d)) = StateOf(TWIN, offlineKey(d))

\* C32 (as claimed): whenever the global modal is visible, MODAL_EVENT_KEY is
\* the eventKey of the notification on display.
C32_ModalKeyMatches == MODAL_VISIBLE => MODAL_EVENT_KEY = shown

\* C33 (as claimed): a pass that sees an anomaly key active more than
\* RepeatWindowMs after the key was last seen active starts a new occurrence:
\* firstSeenMs becomes clock and the candidate of the key, if any, has stage 2.
C33_NewOccurrenceAfterQuiet ==
    [][(pc = "loop" /\ idx' = idx + 1 /\ AnomalyObserved(dev', "Temperature"))
          => LET k == anomalyKey(dev'.deviceId, "Temperature")
                 a == StateOf(EVENTS, k)
                 b == StateOf(EVENTS', k)
             IN  (a.lastSeenMs # 0 /\ clock - a.lastSeenMs > RepeatWindowMs)
                     => /\ b.firstSeenMs = clock
                        /\ StageOf(candidates', k) \in {0, 2}]_vars

\* C34: a step that clears an event (firstSeenMs back to null) leaves its
\* lastAckMs as it was, and a pass that starts a new occurrence of a key less
\* than ModalSnoozeMs after the key's acknowledgement yields no candidate for it.
C34_ClearKeepsAck ==
    [][\A k \in EventKeys :
          LET a == StateOf(EVENTS, k)
              b == StateOf(EVENTS', k)
          IN  /\ (a.firstSeenMs # 0 /\ b.firstSeenMs = 0) => b.lastAckMs = a.lastAckMs
              /\ (pc = "loop" /\ idx' = idx + 1 /\ a.firstSeenMs = 0 /\ b.firstSeenMs # 0
                     /\ a.lastAckMs # 0 /\ clock - a.lastAckMs < ModalSnoozeMs)
                     => StageOf(candidates', k) = 0]_vars

\* An acknowledged anomaly was cleared and is active again within the snooze
\* window: it is marked seen anew and yields no candidate.
C34_Witness ==
    /\ Processed
    /\ LET k == anomalyKey(dev.deviceId, "Temperature")
       IN  /\ AnomalyObserved(dev, "Temperature")
           /\ k \in DOMAIN EVENTS
           /\ EVENTS[k].firstSeenMs = clock
           /\ EVENTS[k].lastFiredStage = 0
           /\ EVENTS[k].lastAckMs # 0
           /\ clock - EVENTS[k].lastAckMs < ModalSnoozeMs
           /\ emitted[k] = 0

\* C35: a pass over a device whose last-data time is absent adds no anomaly
\* candidate and leaves every anomaly event key of that device as it was,
\* whatever rows the device supplies.
C35_NoDataSkipsAnomalies ==
    [][(pc = "loop" /\ idx' = idx + 1 /\ dev'.lastDataMs = 0) =>
          /\ \A i \in (Len(candidates) + 1)..Len(candidates') :
                 candidates'[i].metric = "offline"
          /\ \A m \in 1..Len(Metrics) :
                 LET k == anomalyKey(dev'.deviceId, Metrics[m])
                 IN  /\ (k \in DOMAIN EVENTS') = (k \in DOMAIN EVENTS)
                     /\ StateOf(EVENTS', k) = StateOf(EVENTS, k)]_vars

\* A device without a last-data time supplied rows that hold a temperature
\* anomaly while its anomaly key had an open occurrence from an earlier time.
C35_Witness ==
    /\ Processed
    /\ dev.lastDataMs = 0
    /\ AnomalyObserved([dev EXCEPT !.lastDataMs = 1], "Temperature")
    /\ LET k == anomalyKey(dev.deviceId, "Temperature")
       IN  /\ k \in DOMAIN EVENTS
           /\ EVENTS[k].firstSeenMs # 0
           /\ EVENTS[k].lastSeenMs < clock
           /\ emitted[k] = 0
    /\ emitted[offlineKey(dev.deviceId)] = 2

\* C36: a pass over a device with a known last-data time whose rows hold an
\* anomaly marks the anomaly seen at the evaluation time whatever that time is
\* and keeps the start of an open occurrence; unless snoozed, its candidate is
\* of stage 3 exactly when nowMs - firstSeenMs >= PersistWindowMs; and a
\* stage-3 anomaly candidate precedes the same device's stage-2 offline
\* candidate, so the returned modal is critical and is not that offline event.
C36_StalledAnomalyPersists ==
    [][/\ (pc = "loop" /\ idx' = idx + 1 /\ AnomalyObserved(dev', "Temperature")) =>
             LET k == anomalyKey(dev'.deviceId, "Temperature")
                 a == StateOf(EVENTS, k)
                 b == StateOf(EVENTS', k)
             IN  /\ b.lastSeenMs = clock
                 /\ b.firstSeenMs = IF a.firstSeenMs # 0 THEN a.firstSeenMs ELSE clock
                 /\ ~isSnoozed(b, clock, ModalSnoozeMs) =>
                        StageOf(candidates', k) =
                            IF clock - b.firstSeenMs >= PersistWindowMs THEN 3 ELSE 2
       /\ (pc = "loop" /\ pc' = "return") =>
             \A d \in DeviceIds :
                 (/\ StageOf(candidates, anomalyKey(d, "Temperature")) = 3
                  /\ StageOf(candidates, offlineKey(d)) = 2)
                 => /\ result'.modal.level = "critical"
                    /\ result'.modal.eventKey # offlineKey(d)
                    /\ \A i, j \in 1..Len(candidates') :
                           (/\ candidates'[i].eventKey = anomalyKey(d, "Temperature")
                            /\ candidates'[j].eventKey = offlineKey(d)) => i < j]_vars

\* A device that stopped uploading is offline at stage 2 while its anomaly,
\* first seen at least PersistWindowMs earlier, is still active and is the
\* critical modal returned.
C36_Witness ==
    /\ pc = "return"
    /\ \E i \in 1..Len(devices) :
          LET d == devices[i]
              k == anomalyKey(d.deviceId, "Temperature")
          IN  /\ AnomalyObserved(d, "Temperature")
              /\ clock - d.lastDataMs >= AlertMs
              /\ clock - EVENTS[k].firstSeenMs >= PersistWindowMs
              /\ StageOf(candidates, k) = 3
              /\ StageOf(candidates, offlineKey(d.deviceId)) = 2
              /\ result.modal.level = "critical"
              /\ result.modal.eventKey = k

\* An evaluation called by the dashboard has just ended, normally or not.
Evaluated == pc \in {"return", "thrown", "polled", "pollthrown"} /\ devices # <<>>

\* The device has no entry in GLOBAL_STATE yet, or the entry of an empty
\* collection or of a failed fetch.
NeverSeen(d) == d \notin DOMAIN GLOBAL_STATE \/ GLOBAL_STATE[d].rows = <<>>

\* C37: every evaluation of the dashboard gets one snapshot per configured
\* device, in order; a device not yet polled, or whose fetch failed or found
\* nothing, is passed with empty rows and no last-data time, and the
\* evaluation produces a stage-2 offline candidate for it.
C37_NeverSeenIsOffline ==
    Evaluated =>
        /\ Len(devices) = Len(DEVICES)
        /\ \A i \in 1..Len(DEVICES) :
              /\ devices[i].deviceId = DEVICES[i]
              /\ NeverSeen(DEVICES[i]) =>
                    /\ devices[i].rows = <<>>
                    /\ devices[i].lastDataMs = 0
                    /\ StageOf(candidates, offlineKey(DEVICES[i])) = 2

\* C38: for the latest call of runGlobalAI, entered with the modal state
\* input[1] and left with output[1]: a modal that was visible has been
\* replaced only by a critical one whose key differs from MODAL_EVENT_KEY,
\* and then it has; no toast has been shown over a visible modal; and with no
\* modal visible any returned modal has been shown.
C38_DisplayArbitration ==
    (Len(input) = 1 /\ Len(output) = 1 /\ pc \in {"return", "hidden", "tick"}) =>
        LET e == input[1]
            md == output[1]
            m == result.modal
        IN  /\ e.visible =>
                  /\ md # e <=> (m.level = "critical" /\ m.eventKey # e.key)
                  /\ md # e => md = [visible |-> TRUE, key |-> m.eventKey, shown |-> m.eventKey]
                  /\ ~toasted
            /\ (~e.visible /\ m # NullNote) =>
                  md = [visible |-> TRUE, key |-> m.eventKey, shown |-> m.eventKey]
            /\ toasted => (m = NullNote /\ result.toast # NullNote /\ md = e)

\* A critical modal of another key has replaced the visible one.
C38_Witness ==
    /\ pc = "return"
    /\ Len(input) = 1
    /\ input[1].visible
    /\ input[1].key # ""
    /\ result.modal.level = "critical"
    /\ result.modal.eventKey # input[1].key
    /\ shown = result.modal.eventKey
    /\ MODAL_EVENT_KEY = shown

\* C39: every entry of the event store has firstSeenMs null exactly when
\* lastSeenMs is null, a lastFiredStage from 0 to 3 that is positive only
\* while firstSeenMs is set, and firstSeenMs no later than lastSeenMs (the
\* clock is positive and never goes back).
C39_StoreShape ==
    \A k \in DOMAIN EVENTS :
        LET st == EVENTS[k]
        IN  /\ (st.firstSeenMs = 0) <=> (st.lastSeenMs = 0)
            /\ st.lastFiredStage > 0 => st.firstSeenMs # 0
            /\ st.lastFiredStage \in 0..3
            /\ st.firstSeenMs <= st.lastSeenMs

\* An anomaly has fired at stage 3 after being seen over some time while the
\* offline entry of its device has been cleared by a recovery.
C39_Witness ==
    /\ pc = "return"
    /\ DOMAIN EVENTS = {"A:offline", "A:Temperature:anomaly"}
    /\ EVENTS["A:Temperature:anomaly"].lastFiredStage = 3
    /\ EVENTS["A:Temperature:anomaly"].firstSeenMs < EVENTS["A:Temperature:anomaly"].lastSeenMs
    /\ EVENTS["A:offline"].firstSeenMs = 0
    /\ offline["A"].again

\* C40: a request served by the ingestion endpoint is answered 405 if it is
\* not a POST, else 403 if its API key is not the configured one, else 400 if
\* its deviceId is empty; none of these, nor a write that fails (500 with
\* ok false), adds a document; otherwise exactly one document is added under
\* the deviceId and the answer is ok true.
C40_IngestChecks ==
    (pc = "return" /\ Len(input) = 3 /\ Len(output) = 1) =>
        LET req == input[1]
            fails == input[2]
            before == input[3]
            res == output[1]
            b == IF req.hasBody THEN req.body ELSE [apiKey |-> JsUndef, deviceId |-> JsUndef]
            keyOk == b.apiKey = DEVICE_API_KEY
            idOk == b.deviceId \in {JsStr("A"), JsNum(7)}
        IN  /\ res.status = IF req.method # "POST" THEN 405
                            ELSE IF ~keyOk THEN 403
                            ELSE IF ~idOk THEN 400
                            ELSE IF fails THEN 500 ELSE 200
            /\ res.status # 200 => (public_readings = before /\ res.ok # "true")
            /\ res.status = 500 => res.ok = "false"
            /\ res.status = 200 =>
                  /\ res.ok = "true"
                  /\ Len(public_readings) = Len(before) + 1
                  /\ SubSeq(public_readings, 1, Len(before)) = before
                  /\ public_readings[Len(public_readings)].deviceId \in {"A", "7"}

\* A POST with the right key and a deviceId whose write failed: 500, ok
\* false, nothing written.
C40_Witness ==
    /\ pc = "return"
    /\ Len(input) = 3
    /\ input[1].method = "POST"
    /\ input[1].hasBody
    /\ input[1].body.apiKey = DEVICE_API_KEY
    /\ input[1].body.deviceId = JsStr("A")
    /\ input[2]
    /\ output[1].status = 500
    /\ output[1].ok = "false"
    /\ public_readings = input[3]

============================================================================
